---- MODULE Spec2Model ----
(***************************************************************************)
(* TrustLink: the store-and-forward satellite relay                        *)
(* (src/short_path_enhancement/satellite_node_sp.py) with its listener,    *)
(* its MAX_CONNECTIONS connection_worker threads, the shared               *)
(* connection_queue, recent_messages, ROUTING_TABLE and metrics.           *)
(*                                                                         *)
(* A worker's handle_connection is cut into steps at every access to       *)
(* shared unlocked state (recent_messages), so that the interleavings of   *)
(* the threads are the interleavings of the model.  A block that runs      *)
(* under metrics_lock is one step.                                         *)
(*                                                                         *)
(* Spec is the relay with all its workers; SpecOneWorker is the relay with *)
(* one worker running; SpecDedup is is_duplicate called by one thread;     *)
(* SpecMalformed is one worker fed with malformed datagrams; SpecResolve   *)
(* is get_next_hop called on routing tables of every shape; SpecEndToEnd   *)
(* adds the vehicle's send_data (vehicle_node_shortest_path.py) and the    *)
(* command station (command_station_shortpath.py) around the relay.        *)
(* SpecParallel is the parallel relay                                      *)
(* (src/Parallel_Enhancement/satellite_node_parallel.py), whose workers    *)
(* share a second queue, message_queue.                                    *)
(* SpecAnnounced is the relay fed with announcements; SpecStartup is       *)
(* main() from sock.bind on; SpecSink is the two command stations          *)
(* (command_station_shortpath.py, field_testing/command_station_field.py)  *)
(* as receivers; SpecResent is the relay receiving one envelope several    *)
(* times; SpecLossy is the relay on a link where simulate_packet_loss      *)
(* always answers True; SpecLocks is the relay's threads as users of       *)
(* metrics_lock, where a with block is an acquire and a release.           *)
(* SpecPointed is the relay fed with announcements of names its static     *)
(* entries point to; SpecSecondHop is the relay behind another relay;      *)
(* SpecStatic is the relay receiving an envelope for each destination of   *)
(* its static table; SpecVehicle is the vehicle's main loop and send_data  *)
(* alone, SpecVehicleLoop the same loop with the relay answering.          *)
(***************************************************************************)
EXTENDS Integers, Sequences, FiniteSets, TLC

(***************************************************************************)
(* Program constants.                                                      *)
(***************************************************************************)
SATELLITE_PORT == 33001
COMMAND_STATION_IP == "10.35.70.19"
COMMAND_STATION_PORT == 33500
ACK_LISTEN_PORT == 33020
MAX_CONNECTIONS == 5
MAX_RETRIES == 3
\* MAX_RETRIES of the vehicle
VEHICLE_MAX_RETRIES == 3
\* the literal 10 of is_duplicate: "10-second threshold"
DEDUP_WINDOW == 10
\* the literal 0.5 of forward_to_neighbor's time.sleep(0.5), in milliseconds
RETRY_SLEEP == 500

(***************************************************************************)
(* Bounds of the model.                                                    *)
(***************************************************************************)
\* datagrams the listener receives in one behaviour of the relay
MaxRecv == 2
\* datagrams the listener receives in one behaviour of the one-worker relay
MaxPending == 3
\* the last second of the clock in the sequential runs of is_duplicate
MaxClock == 12
\* duplicates counted in one sequential run of is_duplicate
MaxDuplicates == 2
\* datagrams the listener receives in one behaviour of the relay fed with
\* malformed datagrams
MaxMalformed == 2
\* datagrams the vehicle puts on the wire in one run of send_data
MaxVehicleSends == 2
\* announcements broadcast_presence drops in one behaviour
MaxBroadcastDrops == 1
\* datagrams the listener of the parallel relay receives in one behaviour
MaxParallelRecv == 2
\* datagrams the listener receives in one behaviour of the relay fed with
\* announcements
MaxAnnounced == 2
\* datagrams each command station receives in one behaviour
MaxSinkRecv == 3
\* copies of one envelope the listener receives in one behaviour
MaxResent == 3
\* datagrams that reach the vehicle's socket
MaxReplies == 2
\* calls of send_data the vehicle's main loop makes
MaxVehicleCalls == 2
\* connection_worker threads in the model of the lock discipline
MaxLockWorkers == 2

\* the instants time.time() returns to the relay's workers (seconds): two
\* reads are either within the dedup window or 11 seconds apart
Instants == {0, 11}

Workers == 1..MAX_CONNECTIONS

(***************************************************************************)
(* Envelopes: create_message's dictionary.  "priority" is optional.        *)
(***************************************************************************)
Envelope(type, source, destination, payload, id) ==
    [type |-> type, source |-> source, destination |-> destination,
     payload |-> payload, timestamp |-> 0, id |-> id]

WithPriority(message, p) ==
    [k \in DOMAIN message \cup {"priority"} |->
        IF k = "priority" THEN p ELSE message[k]]

\* message.get("priority", 1)
Priority(message) ==
    IF "priority" \in DOMAIN message THEN message["priority"] ELSE 1

(***************************************************************************)
(* json.dumps and json.loads of an envelope: the text is the (key, value)  *)
(* pairs in the dictionary's insertion order, the decoded dictionary has   *)
(* the keys of the pairs.                                                  *)
(***************************************************************************)
JsonKeys == <<"type", "source", "destination", "payload", "timestamp", "id", "priority">>

dumps(message) ==
    LET present == SelectSeq(JsonKeys, LAMBDA k : k \in DOMAIN message)
    IN  [i \in 1..Len(present) |-> <<present[i], message[present[i]]>>]

\* text json.loads accepts: every element is a (key, value) pair
Decodable(data) == \A i \in DOMAIN data : Len(data[i]) = 2

\* bytes that are no JSON text
Garbage == << <<"\\xff">> >>

loads(data) ==
    [k \in {data[i][1] : i \in DOMAIN data} |->
        data[CHOOSE i \in DOMAIN data : data[i][1] = k][2]]

\* f"satellite_{SATELLITE_PORT}"
RelayIdentity == "satellite_" \o ToString(SATELLITE_PORT)

Gps(lat, lon) == [gps |-> [latitude |-> lat, longitude |-> lon]]

(***************************************************************************)
(* The datagrams the environment can deliver to the relay's port: the      *)
(* sender's (ip, port) and the encoded envelope.                           *)
(***************************************************************************)
CommandStation == <<COMMAND_STATION_IP, COMMAND_STATION_PORT>>
VehicleAddr == <<"10.0.0.7", ACK_LISTEN_PORT>>
OtherVehicleAddr == <<"10.0.0.8", 50000>>
AnnouncerAddr == <<"10.0.0.5", 51000>>

Datagrams ==
    { [addr |-> VehicleAddr,
       data |-> dumps(Envelope("data", "vehicle_1", "satellite", Gps(53, -6), "vehicle_1-1"))],
      [addr |-> OtherVehicleAddr,
       data |-> dumps(WithPriority(
           Envelope("data", "vehicle_2", "unknown_xyz", Gps(10, 20), "vehicle_2-1"), 3))],
      [addr |-> AnnouncerAddr,
       data |-> dumps(Envelope("announcement", "sat_9", "all", [port |-> 44000], "sat_9-1"))] }

\* main's create_message("data", vehicle_id, "satellite", {"gps": gps_data})
VehicleEnvelope == Envelope("data", "vehicle_1", "satellite", Gps(53, -6), "vehicle_1-1")

\* a dictionary without one of its keys
Without(message, key) == [k \in DOMAIN message \ {key} |-> message[k]]

\* a data envelope that lacks one required field
Lacking(key, id) ==
    dumps(Without(Envelope("data", "vehicle_1", "satellite", Gps(53, -6), id), key))

\* a well-formed envelope, envelopes lacking a field, and bytes that do not decode
MalformedDatagrams ==
    { [addr |-> VehicleAddr, data |-> dumps(VehicleEnvelope)],
      [addr |-> VehicleAddr, data |-> Lacking("id", "vehicle_1-2")],
      [addr |-> VehicleAddr, data |-> Lacking("type", "vehicle_1-3")],
      [addr |-> VehicleAddr, data |-> Lacking("source", "vehicle_1-4")],
      [addr |-> VehicleAddr, data |-> Lacking("destination", "vehicle_1-5")],
      [addr |-> VehicleAddr, data |-> Garbage] }

\* with a third priority level, for the one-worker relay
PriorityDatagrams ==
    Datagrams \cup
    { [addr |-> OtherVehicleAddr,
       data |-> dumps(WithPriority(
           Envelope("data", "vehicle_3", "sat_5", Gps(-33, 151), "vehicle_3-1"), 2))] }

\* with a destination the parallel relay reaches through a neighbour; every
\* data envelope has a priority of its own, so that the (priority, message)
\* tuples of message_queue are ordered by their priorities
ParallelDatagrams ==
    PriorityDatagrams \cup
    { [addr |-> OtherVehicleAddr,
       data |-> dumps(WithPriority(
           Envelope("data", "vehicle_4", "sat_1", Gps(48, 2), "vehicle_4-1"), 4))] }

\* a second address sat_9 announces itself from
SecondAnnouncerAddr == <<"10.0.0.6", 51001>>

\* two announcements of sat_9 with different endpoints, one of a name the
\* static table has, and a data envelope for sat_9
AnnouncementDatagrams ==
    { [addr |-> AnnouncerAddr,
       data |-> dumps(Envelope("announcement", "sat_9", "all", [port |-> 44000], "sat_9-1"))],
      [addr |-> SecondAnnouncerAddr,
       data |-> dumps(Envelope("announcement", "sat_9", "all", [port |-> 44001], "sat_9-2"))],
      [addr |-> AnnouncerAddr,
       data |-> dumps(Envelope("announcement", "sat_1", "all", [port |-> 33001], "sat_1-1"))],
      [addr |-> VehicleAddr,
       data |-> dumps(Envelope("data", "vehicle_1", "sat_9", Gps(53, -6), "vehicle_1-9"))] }

\* announcements whose source is a name the static table's entries point to
\* through next_hop, one of a name nothing points to, and a data envelope
PointedAnnouncementDatagrams ==
    { [addr |-> AnnouncerAddr,
       data |-> dumps(Envelope("announcement", "command_station", "all", [port |-> 44000],
                               "command_station-1"))],
      [addr |-> AnnouncerAddr,
       data |-> dumps(Envelope("announcement", "sat_2", "all", [port |-> 33002], "sat_2-1"))],
      [addr |-> SecondAnnouncerAddr,
       data |-> dumps(Envelope("announcement", "sat_9", "all", [port |-> 44001], "sat_9-2"))],
      [addr |-> VehicleAddr, data |-> dumps(VehicleEnvelope)] }

\* the socket forward_to_neighbor of another relay sends from
NeighborRelayAddr == <<"10.0.0.2", 52000>>

\* what a relay behind another relay receives: the vehicle's envelope as the
\* other relay's forward_message sent it, and an envelope straight from a vehicle
ForwardedDatagrams ==
    { [addr |-> NeighborRelayAddr, data |-> dumps(VehicleEnvelope)],
      [addr |-> OtherVehicleAddr,
       data |-> dumps(Envelope("data", "vehicle_2", "satellite", Gps(10, 20), "vehicle_2-2"))] }

\* what can reach a command station's port: envelopes of the three kinds of
\* type, an envelope without a type, and bytes that do not decode
SinkDatagrams ==
    { dumps(VehicleEnvelope),
      dumps(Envelope("control", "ground_1", "command_station", [command |-> "status"],
                     "ground_1-1")),
      dumps(Envelope("ack", RelayIdentity, "vehicle_1", [status |-> "received"],
                     RelayIdentity \o "-1")),
      Lacking("type", "vehicle_1-3"),
      Garbage }

(***************************************************************************)
(* State.                                                                  *)
(***************************************************************************)
VARIABLES
    now,                \* the instant time.time() returned last
    received,           \* the (addr, message) tuples main's loop built, in order
    connection_queue,   \* queue.Queue, FIFO: references to those tuples
    recent_messages,    \* message id -> first-seen time
    ROUTING_TABLE,      \* destination -> entry
    metrics,            \* the counters, all updated under metrics_lock
    worker,             \* each connection_worker: position and locals
    net,                \* the sock.sendto calls made for each work item, in order
    broadcast_dropped,  \* announcements broadcast_presence dropped
    life,               \* history: what happened to each received item
    call,               \* the last sequential call of is_duplicate, with its result
    vehicle,            \* the vehicle in send_data: position, locals, socket, metrics
    command_station,    \* the command station: metrics and the envelopes it logged
    arrived,            \* the relay's sendto calls whose datagram reached its endpoint
    parallel,           \* the parallel relay: its module-level state and its workers
    main,               \* main(): its position, the outcome of bind, the threads started
    field_station,      \* the field-testing command station: its metrics
    link_simulator,     \* what simulate_packet_loss is made to return
    threads             \* metrics_lock and the relay's threads as users of it

\* the nodes around the relay
scenario == <<vehicle, command_station, arrived, field_station>>

\* the state of the short-path relay's module
short_path == <<now, received, connection_queue, recent_messages, ROUTING_TABLE,
                metrics, worker, net, broadcast_dropped, life, call, link_simulator,
                threads>>

vars == <<now, received, connection_queue, recent_messages, ROUTING_TABLE,
          metrics, worker, net, broadcast_dropped, life, call, scenario, parallel,
          main, link_simulator, threads>>

\* get_next_hop's None
None == [none |-> TRUE]

\* a worker blocked in connection_queue.get(): it holds no item
IdleWorker == [pc |-> "idle", item |-> 0, current_time |-> 0]

StaticRoutingTable ==
    [d \in {"command_station", "sat_1", "sat_2", "sat_3", "sat_4", "sat_5", "satellite"} |->
        CASE d = "command_station" ->
                [next_hop |-> "command_station", ip |-> COMMAND_STATION_IP,
                 port |-> COMMAND_STATION_PORT]
          [] d = "sat_1" -> [next_hop |-> "sat_2"]
          [] d = "sat_2" -> [next_hop |-> "sat_3"]
          [] d = "sat_3" -> [next_hop |-> "sat_4"]
          [] d = "sat_4" -> [next_hop |-> "sat_5"]
          [] d = "sat_5" -> [next_hop |-> "command_station"]
          [] d = "satellite" -> [next_hop |-> "command_station"]]

InitialMetrics ==
    [total_packets_received |-> 0, total_packets_forwarded |-> 0,
     total_packets_dropped |-> 0, total_acks_sent |-> 0,
     duplicate_messages |-> 0, shortest_path_updates |-> 0]

NoCall == [id |-> ""]

\* in place of the envelope of a datagram that json.loads rejected
Undecoded == [undecodable |-> TRUE]

\* the message of the k-th iteration of the vehicle's main loop: a new
\* vehicle id and a new envelope id each time
VehicleMessage(k) ==
    IF k = 1 THEN VehicleEnvelope
    ELSE Envelope("data", "vehicle_2", "satellite", Gps(10, 20), "vehicle_2-2")

\* the vehicle entering send_data for the first message of main's loop, its
\* socket bound to ACK_LISTEN_PORT; accepted is the datagram send_data took
\* for the acknowledgement, entry is what was sent and counted when the call
\* began
InitialVehicle ==
    [pc |-> "attempt", attempt |-> 0, returned |-> FALSE, sent |-> <<>>, sock |-> <<>>,
     call |-> 1, accepted |-> <<>>,
     entry |-> [sent |-> 0, successful_transmissions |-> 0, failed_transmissions |-> 0],
     metrics |-> [total_messages_sent |-> 0, successful_transmissions |-> 0,
                  retransmissions |-> 0, failed_transmissions |-> 0]]

InitialCommandStation ==
    [metrics |-> [total_messages_received |-> 0, control_messages_received |-> 0,
                  data_messages_received |-> 0, unknown_messages_received |-> 0,
                  malformed_messages_received |-> 0],
     sources |-> [x \in {} |-> 0],
     log |-> <<>>]

NewLife ==
    [found |-> "none", age |-> -1, verdict |-> "none", route |-> "none",
     raised |-> "", done |-> FALSE]

\* a worker of the parallel relay blocked in connection_queue.get(); msg is
\* route_data's local: the entry it took from message_queue last
IdleParallelWorker == [pc |-> "idle", item |-> 0, msg |-> 0, current_time |-> 0]

\* satellite_node_parallel.py after its module-level statements
InitialParallel ==
    [now |-> 0, received |-> <<>>, connection_queue |-> <<>>, message_queue |-> {},
     recent_messages |-> [x \in {} |-> 0],
     worker |-> [w \in Workers |-> IdleParallelWorker],
     net |-> <<>>, judged |-> {}]

\* command_station_field.py's metrics, and the datagrams its loop received
InitialFieldStation ==
    [metrics |-> [total_messages_received |-> 0, control_messages_received |-> 0,
                  data_messages_received |-> 0, unknown_messages_received |-> 0],
     recvfrom |-> 0]

\* the threads of the lock discipline: the workers, then broadcast_presence,
\* then display_metrics
LockThreads == 1..(MaxLockWorkers + 2)

\* a position of a thread: a label and the attempt of forward_to_neighbor's loop
L(label) == <<label, 0>>

\* metrics_lock free (0), every thread at the top of its loop, holding nothing
InitialThreads ==
    [metrics_lock |-> 0,
     pc |-> [t \in LockThreads |->
                IF t <= MaxLockWorkers THEN L("get")
                ELSE IF t = MaxLockWorkers + 1 THEN L("create_message")
                ELSE L("sleep_125")],
     held |-> [t \in LockThreads |-> {}]]

\* main() before sock.bind
AtBind ==
    [pc |-> "bind", bind |-> "none", workers |-> 0, broadcast_presence |-> FALSE,
     display_metrics |-> FALSE, exit_code |-> -1]

\* main() in its receive loop, every thread started
Running ==
    [pc |-> "recvfrom", bind |-> "ok", workers |-> MAX_CONNECTIONS,
     broadcast_presence |-> TRUE, display_metrics |-> TRUE, exit_code |-> -1]

\* the module-level state of a relay whose routing table is `table`
Loaded(table) ==
    /\ now = 0
    /\ received = <<>>
    /\ connection_queue = <<>>
    /\ recent_messages = [x \in {} |-> 0]
    /\ ROUTING_TABLE = table
    /\ metrics = InitialMetrics
    /\ worker = [w \in Workers |-> IdleWorker]
    /\ net = <<>>
    /\ broadcast_dropped = 0
    /\ life = <<>>
    /\ call = NoCall
    /\ vehicle = InitialVehicle
    /\ command_station = InitialCommandStation
    /\ arrived = {}
    /\ parallel = InitialParallel
    /\ field_station = InitialFieldStation
    /\ threads = InitialThreads

\* the relay in its receive loop
Start(table) == Loaded(table) /\ main = Running /\ link_simulator = "random"

Init == Start(StaticRoutingTable)

(***************************************************************************)
(* Helpers.                                                                *)
(***************************************************************************)
Bump(m, key) == [m EXCEPT ![key] = @ + 1]

\* an assignment that keeps the value a key already has
PutIfAbsent(f, key, value) ==
    [x \in DOMAIN f \cup {key} |-> IF x \in DOMAIN f THEN f[x] ELSE value]

\* dict[key] = value, and del dict[key]
Put(f, key, value) ==
    [x \in DOMAIN f \cup {key} |-> IF x = key THEN value ELSE f[x]]

Del(f, key) == [x \in DOMAIN f \ {key} |-> f[x]]

\* the values simulate_packet_loss() can return: random.random() <
\* PACKET_LOSS_PROBABILITY, or True when the simulator is forced to drop
simulate_packet_loss(simulator) ==
    IF simulator = "always_drop" THEN {TRUE} ELSE BOOLEAN

HasEndpoint(entry) == "ip" \in DOMAIN entry /\ "port" \in DOMAIN entry

\* resolution that follows a second indirection
get_next_hop_two_hops(table, destination) ==
    LET Direct(d) == d \in DOMAIN table /\ HasEndpoint(table[d])
        Pointer(d) == IF d \in DOMAIN table /\ "next_hop" \in DOMAIN table[d]
                      THEN table[d]["next_hop"] ELSE ""
        first == Pointer(destination)
        second == Pointer(first)
    IN  IF destination \notin DOMAIN table THEN None
        ELSE IF Direct(destination) THEN table[destination]
        ELSE IF first # "" /\ Direct(first) THEN table[first]
        ELSE IF first # "" /\ second # "" /\ Direct(second) THEN table[second]
        ELSE None

get_next_hop(table, destination) ==
    IF destination \in DOMAIN table
    THEN LET entry == table[destination] IN
         IF HasEndpoint(entry)
         THEN entry
         ELSE LET static_next_hop ==
                      IF "next_hop" \in DOMAIN entry THEN entry["next_hop"] ELSE ""
              IN IF /\ static_next_hop # ""
                    /\ static_next_hop \in DOMAIN table
                    /\ HasEndpoint(table[static_next_hop])
                 THEN table[static_next_hop]
                 ELSE None
    ELSE None

\* a loop that runs once more: range(MAX_RETRIES + 1)
RetriesExhaustedOneMore(attempt) == attempt > MAX_RETRIES

\* "for attempt in range(MAX_RETRIES)": the loop is over
RetriesExhausted(attempt) == attempt >= MAX_RETRIES

\* the operands of the subtraction swapped
WithinWindowSwapped(current_time, first_seen) ==
    first_seen - current_time < DEDUP_WINDOW

\* the comparison written <= instead of <
WithinWindowInclusive(current_time, first_seen) ==
    current_time - first_seen <= DEDUP_WINDOW

\* the window test of is_duplicate
WithinWindow(current_time, first_seen) == current_time - first_seen < DEDUP_WINDOW

(***************************************************************************)
(* The listener: main's loop.                                              *)
(***************************************************************************)
\* data, addr = sock.recvfrom(1024); connection_queue.put((addr, message))
RecvFrom(datagrams, limit) ==
    \E d \in datagrams :
        /\ Len(received) < limit
        /\ net' = Append(net, <<>>)
        /\ IF Decodable(d.data)
           THEN /\ received' = Append(received,
                                      [addr |-> d.addr, message |-> loads(d.data)])
                /\ connection_queue' = Append(connection_queue, Len(received) + 1)
                /\ life' = Append(life, NewLife)
           ELSE \* json.loads raises: main's handler logs it, nothing is queued
                /\ received' = Append(received, [addr |-> d.addr, message |-> Undecoded])
                /\ life' = Append(life, [NewLife EXCEPT !.raised = "main", !.done = TRUE])
                /\ UNCHANGED connection_queue
        /\ UNCHANGED <<call, scenario, parallel, main, link_simulator, threads, now, recent_messages, ROUTING_TABLE, metrics, worker,
                       broadcast_dropped>>

Recv == RecvFrom(Datagrams, MaxRecv)

(***************************************************************************)
(* broadcast_presence: an announcement goes to the broadcast address, or   *)
(* simulate_packet_loss drops it and total_packets_dropped is counted.     *)
(* Only the drop changes the relay's state.                                *)
(***************************************************************************)
BroadcastDrop ==
    /\ broadcast_dropped < MaxBroadcastDrops
    /\ TRUE \in simulate_packet_loss(link_simulator)
    /\ broadcast_dropped' = broadcast_dropped + 1
    /\ metrics' = Bump(metrics, "total_packets_dropped")
    /\ UNCHANGED <<call, scenario, parallel, main, link_simulator, threads, now, received, connection_queue, recent_messages, ROUTING_TABLE,
                   worker, net, life>>

(***************************************************************************)
(* connection_worker: connection_queue.get() hands the head of the FIFO    *)
(* queue to one blocked worker.  The blocked workers run the same code     *)
(* with no state of their own, so the lowest-numbered idle one takes it.   *)
(***************************************************************************)
\* a get that takes the item put last (a LIFO queue)
DequeueLast(w) ==
    /\ worker[w].pc = "idle"
    /\ \A v \in Workers : v < w => worker[v].pc # "idle"
    /\ connection_queue # <<>>
    /\ connection_queue' = SubSeq(connection_queue, 1, Len(connection_queue) - 1)
    /\ worker' = [worker EXCEPT ![w] =
           [IdleWorker EXCEPT !.pc = "is_duplicate",
                              !.item = connection_queue[Len(connection_queue)]]]
    /\ UNCHANGED <<call, scenario, parallel, main, link_simulator, threads, now, received, recent_messages, ROUTING_TABLE,
                   metrics, net, broadcast_dropped, life>>

\* a get that leaves the item on the queue
DequeueWithoutRemoving(w) ==
    /\ worker[w].pc = "idle"
    /\ \A v \in Workers : v < w => worker[v].pc # "idle"
    /\ connection_queue # <<>>
    /\ worker' = [worker EXCEPT ![w] =
           [IdleWorker EXCEPT !.pc = "is_duplicate", !.item = Head(connection_queue)]]
    /\ UNCHANGED <<call, scenario, parallel, main, link_simulator, threads, now, received, connection_queue, recent_messages,
                   ROUTING_TABLE, metrics, net, broadcast_dropped, life>>

Dequeue(w) ==
    /\ worker[w].pc = "idle"
    /\ \A v \in Workers : v < w => worker[v].pc # "idle"
    /\ connection_queue # <<>>
    /\ connection_queue' = Tail(connection_queue)
    /\ worker' = [worker EXCEPT ![w] =
           [IdleWorker EXCEPT !.pc = "is_duplicate", !.item = Head(connection_queue)]]
    /\ UNCHANGED <<call, scenario, parallel, main, link_simulator, threads, now, received, recent_messages, ROUTING_TABLE, metrics, net,
                   broadcast_dropped, life>>

\* an exception that ends the worker thread
RaiseEndsWorker(w, n, where) ==
    /\ worker' = [worker EXCEPT ![w].pc = "ended"]
    /\ life' = [life EXCEPT ![n].raised = where, ![n].done = TRUE]

\* The exception handler of handle_connection: the error is logged and the
\* worker goes back to connection_queue.get().
Raise(w, n, where) ==
    /\ worker' = [worker EXCEPT ![w] = IdleWorker]
    /\ life' = [life EXCEPT ![n].raised = where, ![n].done = TRUE]

(***************************************************************************)
(* is_duplicate, one step per access to recent_messages.                   *)
(***************************************************************************)
\* current_time = time.time(); if message_id in recent_messages
\* The clock is read here and nowhere else in the relay: the call returns an
\* instant not earlier than the one returned before.
IsDuplicateLookup(w) ==
    LET n == worker[w].item
        id == received[n].message.id
    IN  /\ worker[w].pc = "is_duplicate"
        /\ IF "id" \notin DOMAIN received[n].message
           THEN \* KeyError of message["id"], before is_duplicate is entered
                /\ Raise(w, n, "handle_connection")
                /\ UNCHANGED now
           ELSE /\ \E t \in Instants :
                      /\ t >= now
                      /\ now' = t
                      /\ worker' = [worker EXCEPT
                             ![w].current_time = t,
                             ![w].pc = IF id \in DOMAIN recent_messages
                                       THEN "compare" ELSE "record"]
                /\ life' = [life EXCEPT ![n].found =
                        IF id \in DOMAIN recent_messages THEN "present" ELSE "absent"]
        /\ UNCHANGED <<call, scenario, parallel, main, link_simulator, threads, received, connection_queue, recent_messages,
                       ROUTING_TABLE, metrics, net, broadcast_dropped>>

\* the duplicate counted as a dropped packet as well
CountDuplicateAsDropped(m) ==
    Bump(Bump(m, "duplicate_messages"), "total_packets_dropped")

\* with metrics_lock: metrics["duplicate_messages"] += 1
CountDuplicate(m) == Bump(m, "duplicate_messages")

\* if current_time - recent_messages[message_id] < 10: count it, return True
IsDuplicateCompare(w) ==
    LET n == worker[w].item
        id == received[n].message.id
    IN  /\ worker[w].pc = "compare"
        /\ IF id \notin DOMAIN recent_messages
           THEN \* KeyError: another worker deleted the record
                /\ Raise(w, n, "is_duplicate")
                /\ UNCHANGED metrics
           ELSE IF WithinWindow(worker[w].current_time, recent_messages[id])
           THEN /\ metrics' = CountDuplicate(metrics)
                /\ worker' = [worker EXCEPT ![w] = IdleWorker]
                /\ life' = [life EXCEPT
                       ![n].age = worker[w].current_time - recent_messages[id],
                       ![n].verdict = "duplicate", ![n].done = TRUE]
           ELSE /\ worker' = [worker EXCEPT ![w].pc = "delete"]
                /\ life' = [life EXCEPT
                       ![n].age = worker[w].current_time - recent_messages[id]]
                /\ UNCHANGED metrics
        /\ UNCHANGED <<call, scenario, parallel, main, link_simulator, threads, now, received, connection_queue, recent_messages,
                       ROUTING_TABLE, net, broadcast_dropped>>

\* del recent_messages[message_id]
IsDuplicateDelete(w) ==
    LET n == worker[w].item
        id == received[n].message.id
    IN  /\ worker[w].pc = "delete"
        /\ IF id \notin DOMAIN recent_messages
           THEN \* KeyError: another worker deleted the record first
                /\ Raise(w, n, "is_duplicate")
                /\ UNCHANGED recent_messages
           ELSE /\ recent_messages' = Del(recent_messages, id)
                /\ worker' = [worker EXCEPT ![w].pc = "record"]
                /\ UNCHANGED life
        /\ UNCHANGED <<call, scenario, parallel, main, link_simulator, threads, now, received, connection_queue, ROUTING_TABLE, metrics,
                       net, broadcast_dropped>>

\* recent_messages[message_id] = current_time; return False
IsDuplicateRecord(w) ==
    LET n == worker[w].item
        id == received[n].message.id
    IN  /\ worker[w].pc = "record"
        /\ recent_messages' = Put(recent_messages, id, worker[w].current_time)
        /\ worker' = [worker EXCEPT ![w].pc = "dispatch"]
        /\ life' = [life EXCEPT ![n].verdict = "novel"]
        /\ UNCHANGED <<call, scenario, parallel, main, link_simulator, threads, now, received, connection_queue, ROUTING_TABLE, metrics,
                       net, broadcast_dropped>>

(***************************************************************************)
(* handle_connection after is_duplicate returned False.                    *)
(***************************************************************************)
\* sock.sendto(data, to): the call, whether it returned or raised, and the
\* time the thread slept in the except clause that caught it: a forward that
\* raised is followed by time.sleep(0.5), an ACK that raised by none
SendTo(n, kind, to, message, ok) ==
    [n |-> n, kind |-> kind, to |-> to, message |-> message, ok |-> ok,
     slept |-> IF kind = "forward" /\ ~ok THEN RETRY_SLEEP ELSE 0]

\* the call is appended to the calls made for its work item
Sent(sendto) == [net EXCEPT ![sendto.n] = Append(@, sendto)]

\* lines 198-203, under metrics_lock
CountReceived(m) == Bump(m, "total_packets_received")

\* what the transport does with the sendto calls of one work item: the set
\* of attempts whose call raises; every other call returns
Transports == SUBSET (0..(MAX_RETRIES - 1))

\* a loop without the return after the successful send
RECURSIVE ForwardWithoutReturn(_, _, _, _, _, _)
ForwardWithoutReturn(n, data, endpoint, transport, attempt, m) ==
    IF attempt >= MAX_RETRIES
    THEN [calls |-> <<>>, metrics |-> Bump(m, "total_packets_dropped")]
    ELSE LET ok == attempt \notin transport
             rest == ForwardWithoutReturn(n, data, endpoint, transport, attempt + 1,
                         IF ok THEN Bump(m, "total_packets_forwarded") ELSE m)
         IN  [calls |-> <<SendTo(n, "forward", endpoint, data, ok)>> \o rest.calls,
              metrics |-> rest.metrics]

\* total_packets_dropped counted inside the except clause, once per failure
RECURSIVE ForwardCountingEachFailure(_, _, _, _, _, _)
ForwardCountingEachFailure(n, data, endpoint, transport, attempt, m) ==
    IF attempt >= MAX_RETRIES
    THEN [calls |-> <<>>, metrics |-> m]
    ELSE IF attempt \notin transport
    THEN [calls |-> <<SendTo(n, "forward", endpoint, data, TRUE)>>,
          metrics |-> Bump(m, "total_packets_forwarded")]
    ELSE LET rest == ForwardCountingEachFailure(n, data, endpoint, transport,
                         attempt + 1, Bump(m, "total_packets_dropped"))
         IN  [calls |-> <<SendTo(n, "forward", endpoint, data, FALSE)>> \o rest.calls,
              metrics |-> rest.metrics]

(***************************************************************************)
(* forward_to_neighbor: for attempt in range(MAX_RETRIES), send; on        *)
(* success count total_packets_forwarded and return; on an exception go    *)
(* on; after the loop count total_packets_dropped.  The result is the      *)
(* sendto calls made and the metrics after them.                           *)
(***************************************************************************)
RECURSIVE forward_to_neighbor(_, _, _, _, _, _)
forward_to_neighbor(n, data, endpoint, transport, attempt, m) ==
    IF RetriesExhausted(attempt)
    THEN [calls |-> <<>>, metrics |-> Bump(m, "total_packets_dropped")]
    ELSE IF attempt \notin transport
    THEN [calls |-> <<SendTo(n, "forward", endpoint, data, TRUE)>>,
          metrics |-> Bump(m, "total_packets_forwarded")]
    ELSE LET rest == forward_to_neighbor(n, data, endpoint, transport, attempt + 1, m)
         IN  [calls |-> <<SendTo(n, "forward", endpoint, data, FALSE)>> \o rest.calls,
              metrics |-> rest.metrics]

\* a relay that stamps the envelope with an id of its own before forwarding
forward_message_new_id(n, message, table, transport, m) ==
    LET next_hop == get_next_hop(table, message.destination)
        stamped == [message EXCEPT !.id = RelayIdentity \o "-" \o ToString(n)]
    IN  IF next_hop # None
        THEN forward_to_neighbor(n, dumps(stamped), <<next_hop.ip, next_hop.port>>,
                                 transport, 0, m)
        ELSE [calls |-> <<>>, metrics |-> Bump(m, "total_packets_dropped")]

\* a forward_message that logs the missing route and counts nothing
forward_message_uncounted(n, message, table, transport, m) ==
    LET next_hop == get_next_hop(table, message.destination) IN
    IF next_hop # None
    THEN forward_to_neighbor(n, dumps(message), <<next_hop.ip, next_hop.port>>, transport, 0, m)
    ELSE [calls |-> <<>>, metrics |-> m]

\* forward_message: resolve the next hop and forward, or count a drop
forward_message(n, message, table, transport, m) ==
    LET next_hop == get_next_hop(table, message.destination) IN
    IF next_hop # None
    THEN forward_to_neighbor(n, dumps(message), <<next_hop.ip, next_hop.port>>, transport, 0, m)
    ELSE [calls |-> <<>>, metrics |-> Bump(m, "total_packets_dropped")]

\* message["type"] == "data": forward_message(message)
ForwardMessage(w) ==
    LET n == worker[w].item
        message == received[n].message
    IN  /\ worker[w].pc = "dispatch"
        /\ "type" \in DOMAIN message => message.type = "data"
        /\ IF "type" \notin DOMAIN message \/ "destination" \notin DOMAIN message
           THEN \* KeyError of message["type"] or, in forward_message, of
                \* message["destination"]
                /\ Raise(w, n, "handle_connection")
                /\ UNCHANGED <<net, metrics>>
           ELSE /\ \E transport \in Transports :
                      LET result == forward_message(n, message, ROUTING_TABLE,
                                                    transport, metrics)
                      IN  /\ net' = [net EXCEPT ![n] = @ \o result.calls]
                          /\ metrics' = result.metrics
                /\ worker' = [worker EXCEPT ![w].pc = "send_ack"]
                /\ life' = [life EXCEPT ![n].route =
                        IF get_next_hop(ROUTING_TABLE, message.destination) # None
                        THEN "hop" ELSE "no_route"]
        /\ UNCHANGED <<call, scenario, parallel, main, link_simulator, threads, now, received, connection_queue, recent_messages,
                       ROUTING_TABLE, broadcast_dropped>>

\* the acknowledgement with source and destination exchanged
AckMessageFromVehicle(source, serial) ==
    dumps(Envelope("ack", source, RelayIdentity, [status |-> "received"],
                   RelayIdentity \o "-" \o ToString(serial)))

\* create_message("ack", f"satellite_{SATELLITE_PORT}", source, {"status": "received"})
AckMessage(source, serial) ==
    dumps(Envelope("ack", RelayIdentity, source, [status |-> "received"],
                   RelayIdentity \o "-" \o ToString(serial)))

\* the ACK sent back to the address the datagram came from
AckEndpointOfSender(addr) == addr

\* (addr[0], ACK_LISTEN_PORT)
AckEndpoint(addr) == <<addr[1], ACK_LISTEN_PORT>>

\* send_ack whose sock.sendto returns, then the accounting of lines 198-203
SendAckOk(w) ==
    LET n == worker[w].item
        item == received[n]
    IN  /\ worker[w].pc = "send_ack"
        /\ "source" \in DOMAIN item.message
        /\ net' = Sent(SendTo(n, "ack", AckEndpoint(item.addr),
                                     AckMessage(item.message.source, n), TRUE))
        /\ metrics' = CountReceived(Bump(metrics, "total_acks_sent"))
        /\ worker' = [worker EXCEPT ![w] = IdleWorker]
        /\ life' = [life EXCEPT ![n].done = TRUE]
        /\ UNCHANGED <<call, scenario, parallel, main, link_simulator, threads, now, received, connection_queue, recent_messages,
                       ROUTING_TABLE, broadcast_dropped>>

\* send_ack whose sock.sendto raises, or the KeyError of message["source"] in
\* the call of send_ack: handle_connection's handler logs it
SendAckFail(w) ==
    LET n == worker[w].item
        item == received[n]
    IN  /\ worker[w].pc = "send_ack"
        /\ IF "source" \in DOMAIN item.message
           THEN /\ net' = Sent(SendTo(n, "ack", AckEndpoint(item.addr),
                                      AckMessage(item.message.source, n), FALSE))
                /\ Raise(w, n, "send_ack")
           ELSE /\ Raise(w, n, "handle_connection")
                /\ UNCHANGED net
        /\ UNCHANGED <<call, scenario, parallel, main, link_simulator, threads, now, received, connection_queue, recent_messages,
                       ROUTING_TABLE, metrics, broadcast_dropped>>

\* the sender's UDP source port stored instead of the announced port
LearnedSenderPort(addr, payload) == [ip |-> addr[1], port |-> addr[2]]

\* ROUTING_TABLE[source] = {"ip": addr[0], "port": payload["port"]}
Learned(addr, payload) == [ip |-> addr[1], port |-> payload.port]

\* message["type"] == "announcement": update_routing_table, then lines 198-203
UpdateRoutingTable(w) ==
    LET n == worker[w].item
        item == received[n]
        payload == item.message.payload
    IN  /\ worker[w].pc = "dispatch"
        /\ "type" \in DOMAIN item.message
        /\ item.message.type = "announcement"
        /\ IF "port" \in DOMAIN payload
           THEN /\ ROUTING_TABLE' = Put(ROUTING_TABLE, item.message.source,
                                        Learned(item.addr, payload))
                /\ metrics' = CountReceived(Bump(metrics, "shortest_path_updates"))
           ELSE /\ metrics' = CountReceived(metrics)
                /\ UNCHANGED ROUTING_TABLE
        /\ worker' = [worker EXCEPT ![w] = IdleWorker]
        /\ life' = [life EXCEPT ![n].done = TRUE]
        /\ UNCHANGED <<call, scenario, parallel, main, link_simulator, threads, now, received, connection_queue, recent_messages, net,
                       broadcast_dropped>>

\* a worker's steps up to and including the "data" branch
HandleData(w) ==
    \/ Dequeue(w)
    \/ IsDuplicateLookup(w)
    \/ IsDuplicateCompare(w)
    \/ IsDuplicateDelete(w)
    \/ IsDuplicateRecord(w)
    \/ ForwardMessage(w)
    \/ SendAckOk(w)
    \/ SendAckFail(w)

WorkerStep(w) ==
    \/ HandleData(w)
    \/ UpdateRoutingTable(w)

Next ==
    \/ Recv
    \/ BroadcastDrop
    \/ \E w \in Workers : WorkerStep(w)

Spec == Init /\ [][Next]_vars

(***************************************************************************)
(* The relay with its link simulator forced to drop every packet.          *)
(***************************************************************************)
InitLossy ==
    Loaded(StaticRoutingTable) /\ main = Running /\ link_simulator = "always_drop"

SpecLossy == InitLossy /\ [][Next]_vars

(***************************************************************************)
(* The relay with all its workers, receiving one data envelope again and   *)
(* again (the vehicle's retransmissions).  The worker threads are          *)
(* scheduled again and again: a worker that can take a step takes one at   *)
(* some time.                                                              *)
(***************************************************************************)
RecvResent == RecvFrom({[addr |-> VehicleAddr, data |-> dumps(VehicleEnvelope)]}, MaxResent)

NextResent ==
    \/ RecvResent
    \/ \E w \in Workers : HandleData(w)

SpecResent ==
    Init /\ [][NextResent]_vars /\ \A w \in Workers : WF_vars(HandleData(w))


(***************************************************************************)
(* The relay with one connection_worker running: what a single worker      *)
(* does with the queue.                                                    *)
(***************************************************************************)
RecvPending == RecvFrom(PriorityDatagrams, MaxPending)

NextOneWorker ==
    \/ RecvPending
    \/ WorkerStep(1)

SpecOneWorker == Init /\ [][NextOneWorker]_vars

(***************************************************************************)
(* The relay fed with malformed datagrams, one connection_worker running.  *)
(* The worker thread is scheduled again and again: its next step is taken  *)
(* at some time.                                                           *)
(***************************************************************************)
RecvMalformed == RecvFrom(MalformedDatagrams, MaxMalformed)

NextMalformed ==
    \/ RecvMalformed
    \/ HandleData(1)

SpecMalformed == Init /\ [][NextMalformed]_vars /\ WF_vars(HandleData(1))

(***************************************************************************)
(* The relay with all its workers, fed with announcements.                 *)
(***************************************************************************)
RecvAnnounced == RecvFrom(AnnouncementDatagrams, MaxAnnounced)

NextAnnounced ==
    \/ RecvAnnounced
    \/ \E w \in Workers : WorkerStep(w)

SpecAnnounced == Init /\ [][NextAnnounced]_vars

(***************************************************************************)
(* The relay with all its workers, fed with announcements of names that    *)
(* entries of the static table point to.                                   *)
(***************************************************************************)
RecvPointed == RecvFrom(PointedAnnouncementDatagrams, MaxAnnounced)

NextPointed ==
    \/ RecvPointed
    \/ \E w \in Workers : WorkerStep(w)

SpecPointed == Init /\ [][NextPointed]_vars

(***************************************************************************)
(* The relay as the second relay of a path: it receives what a neighbour   *)
(* relay forwarded.                                                        *)
(***************************************************************************)
RecvForwarded == RecvFrom(ForwardedDatagrams, MaxRecv)

NextSecondHop ==
    \/ RecvForwarded
    \/ \E w \in Workers : HandleData(w)

SpecSecondHop == Init /\ [][NextSecondHop]_vars

(***************************************************************************)
(* The relay with its static routing table, receiving one data envelope    *)
(* for each destination the table lists.                                   *)
(***************************************************************************)
StaticDestinationDatagrams ==
    { [addr |-> VehicleAddr,
       data |-> dumps(Envelope("data", "vehicle_1", d, Gps(53, -6), "vehicle_1-" \o d))] :
      d \in DOMAIN StaticRoutingTable }

RecvStatic == RecvFrom(StaticDestinationDatagrams, MaxRecv)

NextStatic ==
    \/ RecvStatic
    \/ \E w \in Workers : HandleData(w)

SpecStatic == Init /\ [][NextStatic]_vars

(***************************************************************************)
(* The relay from the first statement of main(): bind, the threads, the    *)
(* receive loop.  A worker runs once its thread is started.                *)
(***************************************************************************)
\* sock.bind(("", SATELLITE_PORT)) returns
BindOk ==
    /\ main.pc = "bind"
    /\ main' = [main EXCEPT !.pc = "start", !.bind = "ok"]
    /\ UNCHANGED <<short_path, scenario, parallel>>

\* a failed bind that is logged and survived
BindFailContinues ==
    /\ main.pc = "bind"
    /\ main' = [main EXCEPT !.pc = "start", !.bind = "failed"]
    /\ UNCHANGED <<short_path, scenario, parallel>>

\* sock.bind raises OSError: logging.error, sys.exit(1)
BindFail ==
    /\ main.pc = "bind"
    /\ main' = [main EXCEPT !.pc = "exited", !.bind = "failed", !.exit_code = 1]
    /\ UNCHANGED <<short_path, scenario, parallel>>

\* lines 226-229: the connection_worker threads, then broadcast_presence,
\* then display_metrics; after the last one main enters its loop
StartThread ==
    /\ main.pc = "start"
    /\ main' = IF main.workers < MAX_CONNECTIONS
               THEN [main EXCEPT !.workers = @ + 1]
               ELSE IF ~main.broadcast_presence
               THEN [main EXCEPT !.broadcast_presence = TRUE]
               ELSE [main EXCEPT !.display_metrics = TRUE, !.pc = "recvfrom"]
    /\ UNCHANGED <<short_path, scenario, parallel>>

NextStartup ==
    \/ BindOk
    \/ BindFail
    \/ StartThread
    \/ (main.pc = "recvfrom" /\ Recv)
    \/ (main.broadcast_presence /\ BroadcastDrop)
    \/ \E w \in Workers : (w <= main.workers /\ WorkerStep(w))

InitStartup == Loaded(StaticRoutingTable) /\ main = AtBind /\ link_simulator = "random"

SpecStartup == InitStartup /\ [][NextStartup]_vars

(***************************************************************************)
(* The lock discipline.  Each thread of the relay is the graph of its      *)
(* operations on metrics_lock (the one lock the module creates) and of     *)
(* its blocking operations: connection_queue.get(), sock.sendto,           *)
(* time.sleep.  An edge is (from, op, to); "local" stands for the code     *)
(* between two such operations, with one edge per branch it can take.      *)
(***************************************************************************)
Edge(from, op, to) == [from |-> from, op |-> op, to |-> to]

\* "with metrics_lock:" at the given line, then on to `next`
With(line, next) ==
    { Edge(L("with_" \o line), "acquire", L("in_" \o line)),
      Edge(L("in_" \o line), "release", next) }

\* a send_ack whose sendto is made inside the with block
SendAckUnderLockEdges ==
    { Edge(L("send_ack"), "acquire", L("sendto_117")),
      Edge(L("sendto_117"), "sendto", L("in_118")),
      Edge(L("in_118"), "release", L("with_198")) }

\* send_ack: sock.sendto returns or raises, then with metrics_lock (118-119)
SendAckEdges ==
    { Edge(L("send_ack"), "sendto", L("with_118")),
      Edge(L("send_ack"), "sendto", L("get")) }
    \cup With("118", L("with_198"))

\* forward_to_neighbor: for attempt in range(MAX_RETRIES)
ForwardToNeighborEdges ==
    UNION { { Edge(<<"simulate_bandwidth", k>>, "sleep", <<"sendto_173", k>>),
              Edge(<<"sendto_173", k>>, "sendto", L("with_175")),
              Edge(<<"sendto_173", k>>, "sendto", <<"sleep_180", k>>),
              Edge(<<"sleep_180", k>>, "sleep",
                   IF k + 1 < MAX_RETRIES THEN <<"simulate_bandwidth", k + 1>>
                   ELSE L("with_181")) } : k \in 0..(MAX_RETRIES - 1) }
    \cup With("175", L("send_ack"))
    \cup With("181", L("send_ack"))

\* connection_worker and handle_connection
WorkerProgram ==
    { Edge(L("get"), "get", L("is_duplicate")),
      \* is_duplicate: a duplicate, a novel id, a KeyError
      Edge(L("is_duplicate"), "local", L("with_62")),
      Edge(L("is_duplicate"), "local", L("dispatch")),
      Edge(L("is_duplicate"), "local", L("get")),
      \* data, an announcement with a port, anything else, a KeyError
      Edge(L("dispatch"), "local", L("get_next_hop")),
      \* forward_message: get_next_hop reads ROUTING_TABLE (131-140) and returns
      \* an entry or None
      Edge(L("get_next_hop"), "local", L("simulate_bandwidth")),
      Edge(L("get_next_hop"), "local", L("with_163")),
      Edge(L("dispatch"), "local", L("with_149")),
      Edge(L("dispatch"), "local", L("with_198")),
      Edge(L("dispatch"), "local", L("get")) }
    \cup With("62", L("get"))
    \cup With("163", L("send_ack"))
    \cup With("149", L("with_198"))
    \cup ForwardToNeighborEdges
    \cup SendAckEdges
    \cup With("198", L("get"))

\* broadcast_presence: send the announcement, or count the drop; then sleep
BroadcastProgram ==
    { Edge(L("create_message"), "local", L("simulate_bandwidth")),
      Edge(L("create_message"), "local", L("with_107")),
      Edge(L("simulate_bandwidth"), "sleep", L("sendto_104")),
      Edge(L("sendto_104"), "sendto", L("sleep_110")),
      Edge(L("sendto_104"), "sendto", L("create_message")),
      Edge(L("sleep_110"), "sleep", L("create_message")) }
    \cup With("107", L("sleep_110"))

\* display_metrics: time.sleep(30), then the log line under metrics_lock
DisplayProgram ==
    { Edge(L("sleep_125"), "sleep", L("with_126")) } \cup With("126", L("sleep_125"))

Program(t) ==
    IF t <= MaxLockWorkers THEN WorkerProgram
    ELSE IF t = MaxLockWorkers + 1 THEN BroadcastProgram
    ELSE DisplayProgram

\* the edges thread t can follow from where it is
EdgesAt(t) == {e \in Program(t) : e.from = threads.pc[t]}

\* metrics_lock.acquire(): the thread waits until the lock is free
Acquire(t) ==
    \E e \in EdgesAt(t) :
        /\ e.op = "acquire"
        /\ threads.metrics_lock = 0
        /\ threads' = [threads EXCEPT !.metrics_lock = t,
                                      !.held[t] = @ \cup {"metrics_lock"},
                                      !.pc[t] = e.to]
        /\ UNCHANGED <<now, received, connection_queue, recent_messages, ROUTING_TABLE,
                       metrics, worker, net, broadcast_dropped, life, call, link_simulator,
                       scenario, parallel, main>>

\* the end of the with block: metrics_lock.release()
Release(t) ==
    \E e \in EdgesAt(t) :
        /\ e.op = "release"
        /\ threads' = [threads EXCEPT !.metrics_lock = 0,
                                      !.held[t] = @ \ {"metrics_lock"},
                                      !.pc[t] = e.to]
        /\ UNCHANGED <<now, received, connection_queue, recent_messages, ROUTING_TABLE,
                       metrics, worker, net, broadcast_dropped, life, call, link_simulator,
                       scenario, parallel, main>>

\* a blocking operation returns, or the thread runs to its next operation
Proceed(t) ==
    \E e \in EdgesAt(t) :
        /\ e.op \in {"get", "sendto", "sleep", "local"}
        /\ threads' = [threads EXCEPT !.pc[t] = e.to]
        /\ UNCHANGED <<now, received, connection_queue, recent_messages, ROUTING_TABLE,
                       metrics, worker, net, broadcast_dropped, life, call, link_simulator,
                       scenario, parallel, main>>

NextLocks == \E t \in LockThreads : Acquire(t) \/ Release(t) \/ Proceed(t)

SpecLocks == Init /\ [][NextLocks]_vars

(***************************************************************************)
(* is_duplicate run by one thread from call to return, as a function of    *)
(* the store, the id and the clock.  The short-path relay counts           *)
(* duplicate_messages (counted), the scalable relay has the same body      *)
(* without the counter.                                                    *)
(***************************************************************************)
\* a window that slides: a duplicate refreshes the record's time
is_duplicate_sliding(store, message_id, current_time, m, counted) ==
    IF message_id \in DOMAIN store /\ current_time - store[message_id] < DEDUP_WINDOW
    THEN [returned |-> TRUE, recent_messages |-> Put(store, message_id, current_time),
          metrics |-> IF counted THEN Bump(m, "duplicate_messages") ELSE m]
    ELSE [returned |-> FALSE, recent_messages |-> Put(store, message_id, current_time),
          metrics |-> m]

is_duplicate(store, message_id, current_time, m, counted) ==
    IF message_id \in DOMAIN store
    THEN IF WithinWindow(current_time, store[message_id])
         THEN [returned |-> TRUE, recent_messages |-> store,
               metrics |-> IF counted THEN CountDuplicate(m) ELSE m]
         ELSE [returned |-> FALSE,
               recent_messages |-> Put(Del(store, message_id), message_id, current_time),
               metrics |-> m]
    ELSE [returned |-> FALSE,
          recent_messages |-> Put(store, message_id, current_time),
          metrics |-> m]

DedupIds == {"vehicle_1-1", "vehicle_2-1"}

CallIsDuplicate ==
    \E id \in DedupIds, t \in 0..MaxClock, counted \in BOOLEAN :
        LET result == is_duplicate(recent_messages, id, t, metrics, counted) IN
        /\ metrics["duplicate_messages"] < MaxDuplicates
        /\ t >= now
        /\ now' = t
        /\ recent_messages' = result.recent_messages
        /\ metrics' = result.metrics
        /\ call' = [id |-> id, at |-> t, before |-> recent_messages,
                    returned |-> result.returned]
        /\ UNCHANGED <<scenario, parallel, main, link_simulator, threads, received, connection_queue, ROUTING_TABLE, worker,
                       net, broadcast_dropped, life>>

SpecDedup == Init /\ [][CallIsDuplicate]_vars

(***************************************************************************)
(* get_next_hop called on routing tables of every shape over three         *)
(* destinations: an entry is absent, an endpoint, a pointer (to an entry   *)
(* of the table, to itself, or to a name the table lacks), a pointer with  *)
(* an endpoint, or an empty dictionary.                                    *)
(***************************************************************************)
Destinations == {"sat_a", "sat_b", "sat_c"}

EndpointOf(d) == [ip |-> "10.0.1." \o d, port |-> SATELLITE_PORT]

Entries(d) ==
    {[x \in {} |-> ""], EndpointOf(d),
     [next_hop |-> d, ip |-> "10.0.2." \o d, port |-> SATELLITE_PORT]}
    \cup {[next_hop |-> h] : h \in Destinations \cup {"sat_z"}}

Tables ==
    UNION {[keys -> UNION {Entries(d) : d \in Destinations}] : keys \in SUBSET Destinations}

InitResolve == \E table \in Tables : Start(table)

CallGetNextHop ==
    \E destination \in Destinations \cup {"sat_z"} :
        /\ call' = [destination |-> destination,
                    returned |-> get_next_hop(ROUTING_TABLE, destination)]
        /\ UNCHANGED <<scenario, parallel, main, link_simulator, threads, now, received, connection_queue, recent_messages,
                       ROUTING_TABLE, metrics, worker, net, broadcast_dropped, life>>

SpecResolve == InitResolve /\ [][CallGetNextHop]_vars

(***************************************************************************)
(* One vehicle, the relay and the command station.  The vehicle runs       *)
(* send_data once for one envelope; the relay receives what the vehicle    *)
(* sent; a sendto of the relay that returned puts a datagram on the way to *)
(* its endpoint, where it arrives at some later moment or never.           *)
(***************************************************************************)
\* simulate_packet_loss() is true (continue), or sendto raises: the next attempt
VehicleLoss ==
    /\ vehicle.pc = "attempt"
    /\ vehicle.attempt < VEHICLE_MAX_RETRIES
    /\ vehicle' = [vehicle EXCEPT !.attempt = @ + 1]
    /\ UNCHANGED <<now, received, connection_queue, recent_messages, ROUTING_TABLE,
                   metrics, worker, net, broadcast_dropped, life, call, parallel, main,
                   field_station, link_simulator, threads,
                   command_station, arrived>>

\* sock.sendto(message, (satellite_ip, satellite_port)), then wait for the ACK
VehicleSendToUpTo(limit) ==
    /\ vehicle.pc = "attempt"
    /\ vehicle.attempt < VEHICLE_MAX_RETRIES
    /\ Len(vehicle.sent) < limit
    /\ vehicle' = [vehicle EXCEPT !.sent = Append(@, dumps(VehicleMessage(vehicle.call))),
                                  !.metrics = Bump(@, "total_messages_sent"),
                                  !.pc = "recvfrom"]
    /\ UNCHANGED <<now, received, connection_queue, recent_messages, ROUTING_TABLE,
                   metrics, worker, net, broadcast_dropped, life, call, parallel, main,
                   field_station, link_simulator, threads,
                   command_station, arrived>>

VehicleSendTo == VehicleSendToUpTo(MaxVehicleSends)

\* sock.recvfrom returns a datagram: an "ack" ends send_data with True
VehicleRecvAck ==
    /\ vehicle.pc = "recvfrom"
    /\ vehicle.sock # <<>>
    /\ LET ack_message == loads(Head(vehicle.sock)) IN
       IF "type" \in DOMAIN ack_message /\ ack_message.type = "ack"
       THEN vehicle' = [vehicle EXCEPT !.sock = Tail(@),
                                       !.accepted = Head(vehicle.sock),
                                       !.metrics = Bump(@, "successful_transmissions"),
                                       !.returned = TRUE,
                                       !.pc = "returned"]
       ELSE vehicle' = [vehicle EXCEPT !.sock = Tail(@),
                                       !.attempt = @ + 1,
                                       !.pc = "attempt"]
    /\ UNCHANGED <<now, received, connection_queue, recent_messages, ROUTING_TABLE,
                   metrics, worker, net, broadcast_dropped, life, call, parallel, main,
                   field_station, link_simulator, threads,
                   command_station, arrived>>

\* a timeout that does not use up an attempt
VehicleTimeoutSameAttempt ==
    /\ vehicle.pc = "recvfrom"
    /\ vehicle.sock = <<>>
    /\ vehicle' = [vehicle EXCEPT !.metrics = Bump(@, "retransmissions"),
                                  !.pc = "attempt"]
    /\ UNCHANGED <<now, received, connection_queue, recent_messages, ROUTING_TABLE,
                   metrics, worker, net, broadcast_dropped, life, call, parallel, main,
                   field_station, link_simulator, threads,
                   command_station, arrived>>

\* socket.timeout after ACK_TIMEOUT seconds without a datagram
VehicleTimeout ==
    /\ vehicle.pc = "recvfrom"
    /\ vehicle.sock = <<>>
    /\ vehicle' = [vehicle EXCEPT !.metrics = Bump(@, "retransmissions"),
                                  !.attempt = @ + 1,
                                  !.pc = "attempt"]
    /\ UNCHANGED <<now, received, connection_queue, recent_messages, ROUTING_TABLE,
                   metrics, worker, net, broadcast_dropped, life, call, parallel, main,
                   field_station, link_simulator, threads,
                   command_station, arrived>>

\* the loop is over: failed_transmissions, return False
VehicleFail ==
    /\ vehicle.pc = "attempt"
    /\ vehicle.attempt >= VEHICLE_MAX_RETRIES
    /\ vehicle' = [vehicle EXCEPT !.metrics = Bump(@, "failed_transmissions"),
                                  !.returned = FALSE,
                                  !.pc = "returned"]
    /\ UNCHANGED <<now, received, connection_queue, recent_messages, ROUTING_TABLE,
                   metrics, worker, net, broadcast_dropped, life, call, parallel, main,
                   field_station, link_simulator, threads,
                   command_station, arrived>>

\* main's loop: send_data returned, the next message is created and sent
VehicleNextCall ==
    /\ vehicle.pc = "returned"
    /\ vehicle.call < MaxVehicleCalls
    /\ vehicle' = [vehicle EXCEPT !.pc = "attempt", !.attempt = 0, !.returned = FALSE,
                                  !.accepted = <<>>, !.call = @ + 1,
                                  !.entry = [sent |-> Len(vehicle.sent),
                                             successful_transmissions |->
                                                 vehicle.metrics.successful_transmissions,
                                             failed_transmissions |->
                                                 vehicle.metrics.failed_transmissions]]
    /\ UNCHANGED <<now, received, connection_queue, recent_messages, ROUTING_TABLE,
                   metrics, worker, net, broadcast_dropped, life, call, parallel, main,
                   field_station, link_simulator, threads,
                   command_station, arrived>>

\* the relay's recvfrom returns the vehicle's next datagram
RecvVehicle ==
    /\ Len(received) < Len(vehicle.sent)
    /\ RecvFrom({[addr |-> VehicleAddr, data |-> vehicle.sent[Len(received) + 1]]},
                VEHICLE_MAX_RETRIES)

\* the sendto calls that returned and whose datagram is still on its way
OnTheWay(endpoint) ==
    {c \in {<<n, i>> : n \in DOMAIN net, i \in 1..(MAX_RETRIES + 1)} :
        /\ c[2] \in DOMAIN net[c[1]]
        /\ net[c[1]][c[2]].ok
        /\ net[c[1]][c[2]].to = endpoint
        /\ c \notin arrived}

\* a datagram reaches the vehicle's socket, bound to ("", ACK_LISTEN_PORT)
AckArrive ==
    \E c \in OnTheWay(VehicleAddr) :
        /\ arrived' = arrived \cup {c}
        /\ vehicle' = [vehicle EXCEPT !.sock = Append(@, net[c[1]][c[2]].message)]
        /\ UNCHANGED <<now, received, connection_queue, recent_messages, ROUTING_TABLE,
                       metrics, worker, net, broadcast_dropped, life, call, parallel, main,
                   field_station, link_simulator, threads,
                       command_station>>

\* the command station's process_message with its finally clause
process_message(station, message) ==
    LET source == IF "source" \in DOMAIN message THEN message.source ELSE "unknown"
        message_type == IF "type" \in DOMAIN message THEN message.type ELSE "unknown"
        counter == CASE message_type = "control" -> "control_messages_received"
                     [] message_type = "data" -> "data_messages_received"
                     [] OTHER -> "unknown_messages_received"
        count == IF source \in DOMAIN station.sources THEN station.sources[source] ELSE 0
    IN  [station EXCEPT
            !.sources = Put(@, source, count + 1),
            !.metrics = Bump(Bump(@, counter), "total_messages_received")]

\* the command station's recvfrom, json.loads, log and process_message
CommandStationRecv ==
    \E c \in OnTheWay(CommandStation) :
        LET message == loads(net[c[1]][c[2]].message) IN
        /\ arrived' = arrived \cup {c}
        /\ command_station' =
               process_message([command_station EXCEPT !.log = Append(@, message)],
                               message)
        /\ UNCHANGED <<now, received, connection_queue, recent_messages, ROUTING_TABLE,
                       metrics, worker, net, broadcast_dropped, life, call, parallel, main,
                   field_station, link_simulator, threads,
                       vehicle>>

(***************************************************************************)
(* The two command stations as listeners on their ports, receiving         *)
(* whatever is sent there.                                                 *)
(***************************************************************************)
\* command_station_shortpath.py main's loop: recvfrom, json.loads,
\* process_message, or handle_malformed_message on a JSONDecodeError
CommandStationListen ==
    \E data \in SinkDatagrams :
        /\ Len(command_station.log)
               + command_station.metrics.malformed_messages_received < MaxSinkRecv
        /\ command_station' =
               IF Decodable(data)
               THEN process_message([command_station EXCEPT !.log = Append(@, loads(data))],
                                    loads(data))
               ELSE [command_station EXCEPT
                        !.metrics = Bump(@, "malformed_messages_received")]
        /\ UNCHANGED <<short_path, parallel, main, vehicle, arrived, field_station>>

\* command_station_field.py's process_message with its finally clause:
\* message["type"] raises KeyError when the key is missing, the handler logs it
field_process_message(station, message) ==
    LET classified ==
            IF "type" \notin DOMAIN message THEN station.metrics
            ELSE IF message.type = "control"
            THEN Bump(station.metrics, "control_messages_received")
            ELSE IF message.type = "data"
            THEN Bump(station.metrics, "data_messages_received")
            ELSE Bump(station.metrics, "unknown_messages_received")
    IN  [station EXCEPT !.metrics = Bump(classified, "total_messages_received")]

\* command_station_field.py main's loop: recvfrom, json.loads, process_message;
\* a JSONDecodeError is logged
FieldStationListen ==
    \E data \in SinkDatagrams :
        /\ field_station.recvfrom < MaxSinkRecv
        /\ field_station' =
               LET counted == [field_station EXCEPT !.recvfrom = @ + 1]
               IN  IF Decodable(data)
                   THEN field_process_message(counted, loads(data))
                   ELSE counted
        /\ UNCHANGED <<short_path, parallel, main, vehicle, arrived, command_station>>

NextSink ==
    \/ CommandStationListen
    \/ FieldStationListen

SpecSink == Init /\ [][NextSink]_vars

NextEndToEnd ==
    \/ VehicleLoss
    \/ VehicleSendTo
    \/ VehicleRecvAck
    \/ VehicleTimeout
    \/ VehicleFail
    \/ RecvVehicle
    \/ BroadcastDrop
    \/ \E w \in Workers : HandleData(w)
    \/ AckArrive
    \/ CommandStationRecv

SpecEndToEnd == Init /\ [][NextEndToEnd]_vars

(***************************************************************************)
(* The vehicle's main loop around send_data: one call after the other on   *)
(* the same socket, with the relay answering.                              *)
(***************************************************************************)
NextVehicleLoop ==
    \/ VehicleLoss
    \/ VehicleSendTo
    \/ VehicleRecvAck
    \/ VehicleTimeout
    \/ VehicleFail
    \/ VehicleNextCall
    \/ RecvVehicle
    \/ \E w \in Workers : HandleData(w)
    \/ AckArrive

SpecVehicleLoop == Init /\ [][NextVehicleLoop]_vars

(***************************************************************************)
(* The vehicle alone: send_data called by main's loop, every attempt free  *)
(* to send, and datagrams arriving at the vehicle's socket: ACKs of a      *)
(* relay, and a datagram that is no ACK.                                   *)
(***************************************************************************)
VehicleReplies ==
    { AckMessage("vehicle_1", 1), AckMessage("vehicle_2", 2),
      dumps(Envelope("announcement", RelayIdentity, "all", [port |-> SATELLITE_PORT],
                     RelayIdentity \o "-0")) }

\* a datagram reaches the vehicle's socket
ReplyArrive ==
    \E data \in VehicleReplies :
        /\ Cardinality(arrived) < MaxReplies
        /\ arrived' = arrived \cup {<<0, Cardinality(arrived) + 1>>}
        /\ vehicle' = [vehicle EXCEPT !.sock = Append(@, data)]
        /\ UNCHANGED <<short_path, parallel, main, command_station, field_station>>

VehicleSendToAlways == VehicleSendToUpTo(MaxVehicleCalls * VEHICLE_MAX_RETRIES)

NextVehicle ==
    \/ VehicleLoss
    \/ VehicleSendToAlways
    \/ VehicleRecvAck
    \/ VehicleTimeout
    \/ VehicleFail
    \/ VehicleNextCall
    \/ ReplyArrive

SpecVehicle == Init /\ [][NextVehicle]_vars

(***************************************************************************)
(* The parallel relay (src/Parallel_Enhancement/satellite_node_parallel.py)*)
(* with its listener and its MAX_CONNECTIONS workers.  Besides             *)
(* connection_queue the workers share message_queue, a PriorityQueue of    *)
(* (priority, message) tuples that route_data fills and drains, and        *)
(* recent_messages.  handle_connection is cut at every access to the two.  *)
(* message_queue holds references to the received items; net is the        *)
(* sequence of the sendto calls, each with the worker that made it, the    *)
(* item n of its handle_connection call and the item msg it carried;       *)
(* judged is a history of is_duplicate's results.                          *)
(***************************************************************************)
PARALLEL_ROUTING_TABLE ==
    [d \in {"command_station", "satellite", "sat_1", "sat_2", "sat_3", "sat_4", "sat_5"} |->
        CASE d = "command_station" -> [next_hop |-> "command_station"]
          [] d = "satellite" -> [next_hop |-> "command_station"]
          [] d = "sat_1" -> [next_hop |-> "sat_2"]
          [] d = "sat_2" -> [next_hop |-> "sat_3"]
          [] d = "sat_3" -> [next_hop |-> "sat_4"]
          [] d = "sat_4" -> [next_hop |-> "sat_5"]
          [] d = "sat_5" -> [next_hop |-> "command_station"]]

NEIGHBORS ==
    << [id |-> "command_station", ip |-> "10.35.70.19", port |-> 33500],
       [id |-> "sat_1", ip |-> "127.0.0.1", port |-> 33001],
       [id |-> "sat_2", ip |-> "127.0.0.1", port |-> 33002],
       [id |-> "sat_3", ip |-> "127.0.0.1", port |-> 33003],
       [id |-> "sat_4", ip |-> "127.0.0.1", port |-> 33004],
       [id |-> "sat_5", ip |-> "127.0.0.1", port |-> 33005] >>

\* next((n for n in neighbors if n["id"] == next_hop), None)
Neighbor(neighbors, next_hop) ==
    LET found == {i \in DOMAIN neighbors : neighbors[i].id = next_hop}
    IN  IF found = {} THEN None
        ELSE neighbors[CHOOSE i \in found : \A j \in found : i <= j]

\* the entries message_queue.get() can return: those of the lowest priority number
Least(message_queue, items) ==
    {m \in message_queue :
        \A k \in message_queue : Priority(items[m].message) <= Priority(items[k].message)}

\* a sendto call of the parallel relay
ParallelSendTo(w, n, msg, kind, to, message, ok) ==
    [w |-> w, n |-> n, msg |-> msg, kind |-> kind, to |-> to, message |-> message,
     ok |-> ok]

\* main's loop: recvfrom, json.loads, connection_queue.put((addr, message))
ParallelRecv ==
    \E d \in ParallelDatagrams :
        /\ Len(parallel.received) < MaxParallelRecv
        /\ parallel' = [parallel EXCEPT
               !.received = Append(@, [addr |-> d.addr, message |-> loads(d.data)]),
               !.connection_queue = Append(@, Len(parallel.received) + 1)]
        /\ UNCHANGED <<short_path, scenario, main>>

\* connection_worker: addr, message = connection_queue.get()
ParallelDequeue(w) ==
    /\ parallel.worker[w].pc = "idle"
    /\ \A v \in Workers : v < w => parallel.worker[v].pc # "idle"
    /\ parallel.connection_queue # <<>>
    /\ parallel' = [parallel EXCEPT
           !.connection_queue = Tail(@),
           !.worker[w] = [IdleParallelWorker EXCEPT
                             !.pc = "handle_connection",
                             !.item = Head(parallel.connection_queue)]]
    /\ UNCHANGED <<short_path, scenario, main>>

\* handle_connection: if message["type"] == "data", route_data begins:
\* message_queue.put((priority, message))
ParallelPut(w) ==
    LET n == parallel.worker[w].item
        message == parallel.received[n].message
    IN  /\ parallel.worker[w].pc = "handle_connection"
        /\ IF message.type = "data"
           THEN parallel' = [parallel EXCEPT
                    !.message_queue = @ \cup {n},
                    !.worker[w].pc = "empty"]
           ELSE parallel' = [parallel EXCEPT !.worker[w] = IdleParallelWorker]
        /\ UNCHANGED <<short_path, scenario, main>>

\* while not message_queue.empty(): after the loop, route_data returns
ParallelEmpty(w) ==
    /\ parallel.worker[w].pc = "empty"
    /\ parallel' = [parallel EXCEPT !.worker[w].pc =
           IF parallel.message_queue = {} THEN "respond_to_vehicle" ELSE "get"]
    /\ UNCHANGED <<short_path, scenario, main>>

\* _, msg = message_queue.get(): blocks while the queue is empty
ParallelGet(w) ==
    /\ parallel.worker[w].pc = "get"
    /\ \E m \in Least(parallel.message_queue, parallel.received) :
          parallel' = [parallel EXCEPT
              !.message_queue = @ \ {m},
              !.worker[w].msg = m,
              !.worker[w].pc = "is_duplicate"]
    /\ UNCHANGED <<short_path, scenario, main>>

\* is_duplicate: current_time = time.time(); if message_id in recent_messages
ParallelIsDuplicateLookup(w) ==
    LET id == parallel.received[parallel.worker[w].msg].message.id
    IN  /\ parallel.worker[w].pc = "is_duplicate"
        /\ \E t \in Instants :
              /\ t >= parallel.now
              /\ parallel' = [parallel EXCEPT
                     !.now = t,
                     !.worker[w].current_time = t,
                     !.worker[w].pc = IF id \in DOMAIN parallel.recent_messages
                                      THEN "compare" ELSE "record"]
        /\ UNCHANGED <<short_path, scenario, main>>

\* if current_time - recent_messages[message_id] < 10: return True, and
\* route_data goes on with the next entry (continue)
ParallelIsDuplicateCompare(w) ==
    LET n == parallel.worker[w].item
        m == parallel.worker[w].msg
        id == parallel.received[m].message.id
    IN  /\ parallel.worker[w].pc = "compare"
        /\ IF id \notin DOMAIN parallel.recent_messages
           THEN \* KeyError: another worker deleted the record; it leaves
                \* route_data and handle_connection's handler logs it
                parallel' = [parallel EXCEPT !.worker[w] = IdleParallelWorker]
           ELSE IF WithinWindow(parallel.worker[w].current_time,
                                parallel.recent_messages[id])
           THEN parallel' = [parallel EXCEPT
                    !.judged = @ \cup {<<n, m, TRUE>>},
                    !.worker[w].pc = "empty"]
           ELSE parallel' = [parallel EXCEPT !.worker[w].pc = "delete"]
        /\ UNCHANGED <<short_path, scenario, main>>

\* del recent_messages[message_id]
ParallelIsDuplicateDelete(w) ==
    LET id == parallel.received[parallel.worker[w].msg].message.id
    IN  /\ parallel.worker[w].pc = "delete"
        /\ IF id \notin DOMAIN parallel.recent_messages
           THEN \* KeyError: another worker deleted the record first
                parallel' = [parallel EXCEPT !.worker[w] = IdleParallelWorker]
           ELSE parallel' = [parallel EXCEPT
                    !.recent_messages = Del(@, id),
                    !.worker[w].pc = "record"]
        /\ UNCHANGED <<short_path, scenario, main>>

\* recent_messages[message_id] = current_time; return False
ParallelIsDuplicateRecord(w) ==
    LET n == parallel.worker[w].item
        m == parallel.worker[w].msg
        id == parallel.received[m].message.id
    IN  /\ parallel.worker[w].pc = "record"
        /\ parallel' = [parallel EXCEPT
               !.recent_messages = Put(@, id, parallel.worker[w].current_time),
               !.judged = @ \cup {<<n, m, FALSE>>},
               !.worker[w].pc = "route"]
        /\ UNCHANGED <<short_path, scenario, main>>

\* route_data's try block for msg: forward_to_command_station or
\* forward_to_neighbor, one sendto each, its exception caught inside; an
\* unknown destination or next hop raises and route_data's handler logs it
ParallelRoute(w) ==
    LET n == parallel.worker[w].item
        m == parallel.worker[w].msg
        msg == parallel.received[m].message
        destination == msg.destination
        next_hop == PARALLEL_ROUTING_TABLE[destination].next_hop
        neighbor == Neighbor(NEIGHBORS, next_hop)
    IN  /\ parallel.worker[w].pc = "route"
        /\ IF destination \notin DOMAIN PARALLEL_ROUTING_TABLE
           THEN parallel' = [parallel EXCEPT !.worker[w].pc = "empty"]
           ELSE IF next_hop = "command_station"
           THEN \E ok \in BOOLEAN :
                   parallel' = [parallel EXCEPT
                       !.net = Append(@, ParallelSendTo(w, n, m, "forward",
                                          CommandStation, dumps(msg), ok)),
                       !.worker[w].pc = "empty"]
           ELSE IF neighbor # None
           THEN \E ok \in BOOLEAN :
                   parallel' = [parallel EXCEPT
                       !.net = Append(@, ParallelSendTo(w, n, m, "forward",
                                          <<neighbor.ip, neighbor.port>>, dumps(msg), ok)),
                       !.worker[w].pc = "empty"]
           ELSE parallel' = [parallel EXCEPT !.worker[w].pc = "empty"]
        /\ UNCHANGED <<short_path, scenario, main>>

\* respond_to_vehicle(addr, message["source"]): the sendto and its handler
ParallelRespondToVehicle(w) ==
    LET n == parallel.worker[w].item
        item == parallel.received[n]
    IN  /\ parallel.worker[w].pc = "respond_to_vehicle"
        /\ \E ok \in BOOLEAN :
              parallel' = [parallel EXCEPT
                  !.net = Append(@, ParallelSendTo(w, n, 0, "ack", AckEndpoint(item.addr),
                                     AckMessage(item.message.source, n), ok)),
                  !.worker[w] = IdleParallelWorker]
        /\ UNCHANGED <<short_path, scenario, main>>

ParallelWorkerStep(w) ==
    \/ ParallelDequeue(w)
    \/ ParallelPut(w)
    \/ ParallelEmpty(w)
    \/ ParallelGet(w)
    \/ ParallelIsDuplicateLookup(w)
    \/ ParallelIsDuplicateCompare(w)
    \/ ParallelIsDuplicateDelete(w)
    \/ ParallelIsDuplicateRecord(w)
    \/ ParallelRoute(w)
    \/ ParallelRespondToVehicle(w)

NextParallel ==
    \/ ParallelRecv
    \/ \E w \in Workers : ParallelWorkerStep(w)

SpecParallel == Init /\ [][NextParallel]_vars

(***************************************************************************)
(* Vocabulary of the properties.                                           *)
(***************************************************************************)
ItemsReceived == 1..Len(received)

IdOf(n) == received[n].message.id

IsData(n) == received[n].message.type = "data"

SameId(n) == {k \in ItemsReceived : IdOf(k) = IdOf(n)}

\* the positions in net[n] of the sendto calls of one kind
CallsOf(n, kind) == {i \in DOMAIN net[n] : net[n][i].kind = kind}

\* a forward (an ACK) for item n left the relay
Forwarded(n) == \E i \in CallsOf(n, "forward") : net[n][i].ok
Acked(n) == \E i \in CallsOf(n, "ack") : net[n][i].ok

\* every one of the MAX_RETRIES attempts for item n failed
Exhausted(n) ==
    /\ Cardinality(CallsOf(n, "forward")) = MAX_RETRIES
    /\ \A i \in CallsOf(n, "forward") : ~net[n][i].ok


(***************************************************************************)
(* C1. Dedup idempotence with concurrent workers: while every clock read   *)
(* so far lies within one dedup window, among the envelopes that carry     *)
(* one id at most one is judged novel, at most one is forwarded, at most   *)
(* one is ACKed, no worker fails inside is_duplicate, and once all of      *)
(* them are handled exactly one was judged novel.                          *)
(***************************************************************************)
C1_DedupIdempotence ==
    now < DEDUP_WINDOW =>
        \A n \in ItemsReceived :
            /\ Cardinality({k \in SameId(n) : life[k].verdict = "novel"}) <= 1
            /\ Cardinality({k \in SameId(n) : Forwarded(k)}) <= 1
            /\ Cardinality({k \in SameId(n) : Acked(k)}) <= 1
            /\ life[n].raised # "is_duplicate"
            /\ (\A k \in SameId(n) : life[k].done) =>
                   Cardinality({k \in SameId(n) : life[k].verdict = "novel"}) = 1

(***************************************************************************)
(* C2. Sequential contract of is_duplicate(id) at time t: an absent id is  *)
(* recorded at t and the call returns false; an id whose record is less    *)
(* than 10 seconds old is left as it is and the call returns true; an id   *)
(* whose record is 10 seconds old or older is recorded again at t and the  *)
(* call returns false.  No other id's record changes.                      *)
(***************************************************************************)
C2_IsDuplicateContract ==
    call # NoCall =>
        LET before == call.before
            id == call.id
            t == call.at
        IN  /\ id \notin DOMAIN before =>
                   /\ ~call.returned
                   /\ id \in DOMAIN recent_messages /\ recent_messages[id] = t
            /\ (id \in DOMAIN before /\ t - before[id] < 10) =>
                   /\ call.returned
                   /\ recent_messages = before
            /\ (id \in DOMAIN before /\ t - before[id] >= 10) =>
                   /\ ~call.returned
                   /\ id \in DOMAIN recent_messages /\ recent_messages[id] = t
            /\ DOMAIN recent_messages = DOMAIN before \cup {id}
            /\ \A x \in DOMAIN before \ {id} : recent_messages[x] = before[x]

\* a record exactly 10 seconds old was replaced, beside another id's record
C2_Witness ==
    /\ call # NoCall
    /\ call.id \in DOMAIN call.before
    /\ call.at - call.before[call.id] = 10
    /\ ~call.returned
    /\ recent_messages[call.id] = call.at
    /\ DOMAIN call.before # {call.id}

(***************************************************************************)
(* C3. Dedup expiry through the pipeline: when an envelope was forwarded   *)
(* and the only other envelope with its id is looked up 11 seconds after   *)
(* the first was recorded, that second envelope is judged novel and        *)
(* handle_connection forwards it and ACKs it again.                        *)
(***************************************************************************)
C3_ExpiryForwardsAgain ==
    \A i, j \in ItemsReceived :
        ( /\ i # j
          /\ SameId(j) = {i, j}
          /\ IsData(j)
          /\ Forwarded(i)
          /\ life[j].age = 11
          /\ life[j].done )
        => /\ life[j].verdict = "novel"
           /\ CallsOf(j, "forward") # {}
           /\ CallsOf(j, "ack") # {}

C3_Witness ==
    \E i, j \in ItemsReceived :
        /\ i # j /\ SameId(j) = {i, j} /\ IsData(j)
        /\ Forwarded(i) /\ Acked(i)
        /\ life[j].age = 11 /\ life[j].done
        /\ Forwarded(j) /\ Acked(j)

(***************************************************************************)
(* C4. Fail-open routing: a data envelope whose destination is not in      *)
(* ROUTING_TABLE resolves to the command station and a send to that        *)
(* endpoint is attempted; it never takes the no-route branch.              *)
(***************************************************************************)
C4_FailOpen ==
    \A n \in ItemsReceived :
        ( /\ IsData(n)
          /\ received[n].message.destination \notin DOMAIN ROUTING_TABLE
          /\ life[n].route # "none" )
        => /\ life[n].route = "hop"
           /\ \E i \in CallsOf(n, "forward") : net[n][i].to = CommandStation

(***************************************************************************)
(* C5. Bounded retry: at most MAX_RETRIES sendto calls to the next hop are *)
(* made for one work item, whatever the transport does.                    *)
(***************************************************************************)
C5_BoundedRetry ==
    \A n \in ItemsReceived : Cardinality(CallsOf(n, "forward")) <= MAX_RETRIES

C5_Witness ==
    \E n \in ItemsReceived : Exhausted(n) /\ life[n].done

(***************************************************************************)
(* C6. No ACK without a successful forward: every ACK sendto for a work    *)
(* item comes after a forward sendto for that item that succeeded.         *)
(***************************************************************************)
C6_NoAckWithoutForward ==
    \A n \in ItemsReceived :
        \A i \in CallsOf(n, "ack") :
            \E j \in CallsOf(n, "forward") : j < i /\ net[n][j].ok

(***************************************************************************)
(* C7. Retry exhaustion is counted once: total_packets_dropped holds one   *)
(* count for each item whose MAX_RETRIES attempts all failed (beside the   *)
(* no-route and broadcast drops), not one per failed attempt, and          *)
(* total_packets_forwarded counts only the items with a successful send.   *)
(***************************************************************************)
C7_DroppedOncePerExhaustion ==
    /\ metrics.total_packets_dropped
         = Cardinality({n \in ItemsReceived : Exhausted(n)})
           + Cardinality({n \in ItemsReceived : life[n].route = "no_route"})
           + broadcast_dropped
    /\ metrics.total_packets_forwarded
         = Cardinality({n \in ItemsReceived : Forwarded(n)})

C7_Witness ==
    \E n \in ItemsReceived :
        /\ Exhausted(n)
        /\ metrics.total_packets_dropped = 1
        /\ metrics.total_packets_forwarded = 0

(***************************************************************************)
(* C8. Priority ordering: when the envelopes pending for a single worker   *)
(* have the priorities 3, 1, 2 in arrival order (no priority field counts  *)
(* as 1), the worker takes the priority-1 envelope first.                  *)
(***************************************************************************)
PendingPriorities ==
    [i \in DOMAIN connection_queue |-> Priority(received[connection_queue[i]].message)]

C8_PriorityOrder ==
    [][\A w \in Workers :
          ( /\ PendingPriorities = <<3, 1, 2>>
            /\ worker[w].pc = "idle"
            /\ worker'[w].pc = "is_duplicate" )
          => Priority(received[worker'[w].item].message) = 1]_vars

(***************************************************************************)
(* C9. Announcement learning: the step that processes an announcement      *)
(* carrying a port leaves get_next_hop(source) equal to the endpoint       *)
(* (datagram sender IP, payload port).                                     *)
(***************************************************************************)
C9_AnnouncementLearning ==
    [][\A w \in Workers :
          ( /\ worker[w].pc = "dispatch"
            /\ worker'[w].pc = "idle"
            /\ received[worker[w].item].message.type = "announcement"
            /\ "port" \in DOMAIN received[worker[w].item].message.payload )
          => get_next_hop(ROUTING_TABLE', received[worker[w].item].message.source)
               = [ip |-> received[worker[w].item].addr[1],
                  port |-> received[worker[w].item].message.payload.port]]_vars

C9_Witness ==
    /\ \E n \in ItemsReceived :
          /\ received[n].message.source = "sat_9"
          /\ received[n].message.type = "announcement"
          /\ received[n].addr[1] = "10.0.0.5"
          /\ life[n].done
    /\ get_next_hop(ROUTING_TABLE, "sat_9") = [ip |-> "10.0.0.5", port |-> 44000]

(***************************************************************************)
(* C10. End-to-end scenario: the vehicle put its data envelope, with       *)
(* destination "satellite", on the wire once; every sendto of the relay    *)
(* returned; the vehicle has left send_data, the relay has handled what it *)
(* received and every datagram has arrived.  Then the command station has  *)
(* received exactly one data envelope, with the source and the GPS payload *)
(* of the original, and the vehicle's ACK port has received exactly one    *)
(* ack envelope, whose source is satellite_<port>.                         *)
(***************************************************************************)
SentOnce == Len(vehicle.sent) = 1

EverySendReturned == \A n \in DOMAIN net : \A i \in DOMAIN net[n] : net[n][i].ok

Settled ==
    /\ vehicle.pc = "returned"
    /\ Len(received) = Len(vehicle.sent)
    /\ connection_queue = <<>>
    /\ \A w \in Workers : worker[w] = IdleWorker
    /\ OnTheWay(CommandStation) = {}
    /\ OnTheWay(VehicleAddr) = {}

DataAtCommandStation ==
    {i \in DOMAIN command_station.log : command_station.log[i].type = "data"}

ArrivedAtAckPort ==
    {c \in arrived : net[c[1]][c[2]].to = <<VehicleAddr[1], ACK_LISTEN_PORT>>}

C10_EndToEnd ==
    (SentOnce /\ EverySendReturned /\ Settled) =>
        /\ Cardinality(DataAtCommandStation) = 1
        /\ \A i \in DataAtCommandStation :
              /\ command_station.log[i].source = VehicleEnvelope.source
              /\ command_station.log[i].payload = VehicleEnvelope.payload
        /\ command_station.metrics.data_messages_received = 1
        /\ Cardinality(ArrivedAtAckPort) = 1
        /\ \A c \in ArrivedAtAckPort :
              LET ack == loads(net[c[1]][c[2]].message)
              IN  ack.type = "ack" /\ ack.source = RelayIdentity

\* the scenario ran to its end and the vehicle's send_data returned True
C10_Witness ==
    /\ SentOnce /\ EverySendReturned /\ Settled
    /\ vehicle.returned
    /\ Len(command_station.log) = 1
    /\ Cardinality(ArrivedAtAckPort) = 1

(***************************************************************************)
(* C11. Duplicate suppression: the step in which is_duplicate judges an    *)
(* envelope duplicate ends its handling: the worker is back at the queue,  *)
(* no sendto was or is made for the item (no forward, no ACK), the routing *)
(* table is as before, duplicate_messages grew by one and no other counter *)
(* changed.                                                                *)
(***************************************************************************)
JudgedDuplicate(w) ==
    /\ worker[w].pc = "compare"
    /\ life'[worker[w].item].verdict = "duplicate"

C11_DuplicateSuppressed ==
    /\ [](\A n \in ItemsReceived : life[n].verdict = "duplicate" => net[n] = <<>>)
    /\ [][\A w \in Workers :
             JudgedDuplicate(w) =>
                 /\ worker'[w] = IdleWorker
                 /\ life'[worker[w].item].done
                 /\ net' = net
                 /\ ROUTING_TABLE' = ROUTING_TABLE
                 /\ metrics' = [metrics EXCEPT !.duplicate_messages = @ + 1]]_vars

C11_Witness ==
    \E i, j \in ItemsReceived :
        /\ i # j /\ IdOf(i) = IdOf(j)
        /\ Forwarded(i) /\ Acked(i)
        /\ life[j].verdict = "duplicate" /\ life[j].done
        /\ metrics.duplicate_messages = 1

(***************************************************************************)
(* C13. Route resolution: get_next_hop returns the destination's entry     *)
(* when it has ip and port; otherwise it follows the entry's next_hop once *)
(* and returns that target when it has ip and port; otherwise it returns   *)
(* None.  The target's own next_hop is never followed: a chain of two      *)
(* pointers, a pointer to itself and a cycle of pointers all give None.    *)
(***************************************************************************)
IsEndpoint(table, d) ==
    d \in DOMAIN table /\ {"ip", "port"} \subseteq DOMAIN table[d]

IsPointer(table, d) ==
    d \in DOMAIN table /\ ~IsEndpoint(table, d) /\ "next_hop" \in DOMAIN table[d]

C13_RouteResolution ==
    call # NoCall =>
        LET table == ROUTING_TABLE
            d == call.destination
        IN  /\ IsEndpoint(table, d) => call.returned = table[d]
            /\ (IsPointer(table, d) /\ IsEndpoint(table, table[d].next_hop))
                   => call.returned = table[table[d].next_hop]
            /\ (IsPointer(table, d) /\ ~IsEndpoint(table, table[d].next_hop))
                   => call.returned = None
            /\ (~IsEndpoint(table, d) /\ ~IsPointer(table, d)) => call.returned = None

\* a chain of two pointers that ends at an endpoint resolved to None
C13_Witness ==
    /\ call # NoCall
    /\ IsPointer(ROUTING_TABLE, call.destination)
    /\ IsPointer(ROUTING_TABLE, ROUTING_TABLE[call.destination].next_hop)
    /\ IsEndpoint(ROUTING_TABLE,
                  ROUTING_TABLE[ROUTING_TABLE[call.destination].next_hop].next_hop)
    /\ call.returned = None

(***************************************************************************)
(* C14. ACK contract: every ACK the relay sends for a data envelope has    *)
(* type ack, source satellite_<port>, destination the data envelope's      *)
(* source and payload {status: "received"}, and goes to the IP the         *)
(* datagram came from at port 33020, whatever the datagram's source port.  *)
(***************************************************************************)
C14_AckContract ==
    \A n \in ItemsReceived :
        \A i \in CallsOf(n, "ack") :
            LET ack == loads(net[n][i].message) IN
            /\ IsData(n)
            /\ ack.type = "ack"
            /\ ack.source = "satellite_33001"
            /\ ack.destination = received[n].message.source
            /\ ack.payload = [status |-> "received"]
            /\ net[n][i].to = <<received[n].addr[1], 33020>>

\* an ACK left for a datagram that came from a port other than 33020
C14_Witness ==
    \E n \in ItemsReceived :
        /\ received[n].addr[2] # 33020
        /\ Acked(n)
        /\ \A i \in CallsOf(n, "ack") : net[n][i].to # received[n].addr

(***************************************************************************)
(* C15. Announcement handling: an announcement is never judged by the      *)
(* dedup check and never ACKed, and every announcement carrying a port     *)
(* that the relay has handled was learned by update_routing_table: the     *)
(* count of shortest_path_updates is the count of handled announcements.   *)
(***************************************************************************)
IsAnnouncement(n) ==
    /\ received[n].message.type = "announcement"
    /\ "port" \in DOMAIN received[n].message.payload

C15_AnnouncementNoDedup ==
    /\ \A n \in ItemsReceived :
          IsAnnouncement(n) =>
              /\ life[n].verdict # "duplicate"
              /\ CallsOf(n, "ack") = {}
    /\ metrics.shortest_path_updates
         = Cardinality({n \in ItemsReceived : IsAnnouncement(n) /\ life[n].done})

(***************************************************************************)
(* C16. Failure containment: the step in which the handling of an item     *)
(* fails (a missing field, a transport error on the ACK) leaves the worker *)
(* waiting at the queue again and the queue and the queued items as they   *)
(* were; and every item the listener queued, before or after a failure, is *)
(* handled to its end at some time.                                        *)
(***************************************************************************)
C16_FailureContained ==
    /\ [][\A n \in ItemsReceived :
             (life[n].raised = "" /\ life'[n].raised # "") =>
                 /\ \A w \in Workers : worker[w].item = n => worker'[w] = IdleWorker
                 /\ connection_queue' = connection_queue
                 /\ received' = received]_vars
    /\ \A n \in 1..MaxMalformed :
          (Len(received) >= n) ~> (Len(received) >= n /\ life[n].done)

\* after a failed item a later one was forwarded and ACKed
C16_Witness ==
    \E i, j \in ItemsReceived :
        /\ i < j
        /\ life[i].raised = "handle_connection"
        /\ life[j].done /\ Forwarded(j) /\ Acked(j)

(***************************************************************************)
(* C17. Malformed envelopes: a datagram that does not decode, or whose     *)
(* envelope lacks type, id, source or destination, is discarded: no        *)
(* forward and no ACK is sent for it, and once it is handled a counter of  *)
(* metrics has counted it.                                                 *)
(***************************************************************************)
IsMalformed(n) ==
    \/ received[n].message = Undecoded
    \/ ~({"type", "id", "source", "destination"} \subseteq DOMAIN received[n].message)

C17_MalformedDiscarded ==
    /\ \A n \in ItemsReceived : IsMalformed(n) => net[n] = <<>>
    /\ (\E n \in ItemsReceived : IsMalformed(n) /\ life[n].done)
           => metrics # InitialMetrics

(***************************************************************************)
(* C18. No negative acknowledgement: every datagram the relay sends to a   *)
(* sender's ACK port is an ack envelope with status "received", and an     *)
(* item that ended as a duplicate, without a route or with its retries     *)
(* exhausted has no datagram sent to its sender at all.                    *)
(***************************************************************************)
ToSender(n) ==
    {i \in DOMAIN net[n] : net[n][i].to = <<received[n].addr[1], ACK_LISTEN_PORT>>}

FailedOutcome(n) ==
    \/ life[n].verdict = "duplicate"
    \/ life[n].route = "no_route"
    \/ Exhausted(n)

C18_NoNegativeAck ==
    \A n \in ItemsReceived :
        /\ \A i \in ToSender(n) :
              LET envelope == loads(net[n][i].message)
              IN  envelope.type = "ack" /\ envelope.payload = [status |-> "received"]
        /\ FailedOutcome(n) => ToSender(n) = {}

(***************************************************************************)
(* C19. Work-item exclusivity: every item the listener put on              *)
(* connection_queue is at every moment in exactly one place: once on the   *)
(* queue, or held by exactly one worker, or handled to its end.  So it is  *)
(* dequeued exactly once, by one worker, and never lost.                   *)
(***************************************************************************)
TimesQueued(n) ==
    Cardinality({i \in DOMAIN connection_queue : connection_queue[i] = n})

HeldBy(n) == {w \in Workers : worker[w].pc # "idle" /\ worker[w].item = n}

C19_ItemExclusivity ==
    \A n \in ItemsReceived :
        TimesQueued(n) + Cardinality(HeldBy(n)) + (IF life[n].done THEN 1 ELSE 0) = 1

\* two workers hold the two queued items at the same time
C19_Witness ==
    \E v, w \in Workers :
        /\ v # w
        /\ worker[v].pc # "idle" /\ worker[w].pc # "idle"
        /\ worker[v].item # worker[w].item
        /\ connection_queue = <<>>

(***************************************************************************)
(* Vocabulary of the parallel relay's properties.                          *)
(***************************************************************************)
\* the sendto calls of one kind made in the handle_connection call of item n
ParallelCallsOf(n, kind) ==
    {i \in DOMAIN parallel.net : parallel.net[i].n = n /\ parallel.net[i].kind = kind}

\* route_data, in the call for item n, found the id of n's envelope a
\* duplicate, and found no entry of message_queue novel
FoundDuplicate(n) ==
    /\ \E m \in DOMAIN parallel.received :
          /\ <<n, m, TRUE>> \in parallel.judged
          /\ parallel.received[m].message = parallel.received[n].message
    /\ \A m \in DOMAIN parallel.received : <<n, m, FALSE>> \notin parallel.judged

(***************************************************************************)
(* C12. Duplicate suppression in the scalable, channel-characteristics and *)
(* parallel relays: when route_data finds the envelope's id a duplicate,   *)
(* handle_connection sends no ACK for it and no forward happens.           *)
(***************************************************************************)
C12_DuplicateNoAck ==
    \A n \in DOMAIN parallel.received :
        FoundDuplicate(n) =>
            /\ ParallelCallsOf(n, "ack") = {}
            /\ ParallelCallsOf(n, "forward") = {}

(***************************************************************************)
(* C20. Worker independence in the parallel and channel-characteristics    *)
(* relays: the envelope a worker forwards inside route_data is the one it  *)
(* took from connection_queue in that same handle_connection call, and a   *)
(* worker forwards only that one envelope per call, under every            *)
(* interleaving of the workers on the shared message_queue.                *)
(***************************************************************************)
C20_WorkerIndependence ==
    \A n \in DOMAIN parallel.received :
        /\ Cardinality(ParallelCallsOf(n, "forward")) <= 1
        /\ \A i \in ParallelCallsOf(n, "forward") :
              parallel.net[i].message = dumps(parallel.received[n].message)

(***************************************************************************)
(* C21. Within equal priority, arrival order is preserved: with a single   *)
(* worker, envelopes of equal priority are processed in exactly the order  *)
(* the listener received them: a later one is taken from the queue only    *)
(* when every earlier one of its priority has been handled to its end.     *)
(***************************************************************************)
\* the worker took item n from connection_queue
Taken(n) == HeldBy(n) # {} \/ life[n].done

C21_ArrivalOrder ==
    \A i, j \in ItemsReceived :
        (/\ i < j
         /\ Priority(received[i].message) = Priority(received[j].message)
         /\ Taken(j))
        => life[i].done

\* two different envelopes of one priority, with one of another priority
\* between them, all handled
C21_Witness ==
    /\ Len(received) = 3
    /\ received[1].message # received[3].message
    /\ Priority(received[1].message) = Priority(received[3].message)
    /\ Priority(received[2].message) # Priority(received[1].message)
    /\ \A n \in ItemsReceived : life[n].done

(***************************************************************************)
(* C22. Routing entries are never deleted and learning is                  *)
(* last-writer-wins: every name ROUTING_TABLE has, it keeps; ROUTING_TABLE *)
(* changes only when a worker processes an announcement that carries a     *)
(* port, and then the entry of the announcement's source becomes exactly   *)
(* {ip of the sender, announced port}, whatever was stored before, and no  *)
(* other entry changes.                                                    *)
(***************************************************************************)
\* worker w completes update_routing_table for an announcement with a port
ProcessesAnnouncement(w) ==
    /\ worker[w].pc = "dispatch"
    /\ worker'[w].pc = "idle"
    /\ IsAnnouncement(worker[w].item)
    /\ "port" \in DOMAIN received[worker[w].item].message.payload

Upserted(w) ==
    LET item == received[worker[w].item]
    IN  [d \in DOMAIN ROUTING_TABLE \cup {item.message.source} |->
            IF d = item.message.source
            THEN [ip |-> item.addr[1], port |-> item.message.payload.port]
            ELSE ROUTING_TABLE[d]]

C22_EntriesPersistLastWriterWins ==
    /\ [](DOMAIN StaticRoutingTable \subseteq DOMAIN ROUTING_TABLE)
    /\ [][/\ DOMAIN ROUTING_TABLE \subseteq DOMAIN ROUTING_TABLE'
          /\ ROUTING_TABLE' # ROUTING_TABLE => \E w \in Workers : ProcessesAnnouncement(w)
          /\ \A w \in Workers : ProcessesAnnouncement(w) => ROUTING_TABLE' = Upserted(w)]_vars

\* two announcements of one source with different endpoints were both
\* processed, and the table holds the endpoint of the one received first: it
\* was processed last
C22_Witness ==
    /\ Len(received) = 2
    /\ IsAnnouncement(1) /\ IsAnnouncement(2)
    /\ received[1].message.source = received[2].message.source
    /\ received[1].message.payload # received[2].message.payload
    /\ life[1].done /\ life[2].done
    /\ life[1].verdict = "novel" /\ life[2].verdict = "novel"
    /\ ROUTING_TABLE[received[1].message.source] =
           [ip |-> received[1].addr[1], port |-> received[1].message.payload.port]

(***************************************************************************)
(* C23. Envelope immutability across a hop: the datagram the relay         *)
(* forwards decodes to exactly the fields of the received envelope with    *)
(* identical values (priority included when present, the id unchanged),    *)
(* and no step changes an envelope the listener received.                  *)
(***************************************************************************)
C23_EnvelopeImmutable ==
    /\ [](\A n \in ItemsReceived : \A i \in CallsOf(n, "forward") :
             /\ Decodable(net[n][i].message)
             /\ loads(net[n][i].message) = received[n].message)
    /\ [][\A n \in ItemsReceived : received'[n] = received[n]]_vars

\* an envelope with a priority was forwarded and the call returned
C23_Witness ==
    \E n \in ItemsReceived : \E i \in CallsOf(n, "forward") :
        /\ "priority" \in DOMAIN received[n].message
        /\ net[n][i].ok

(***************************************************************************)
(* C24. A bind failure at startup is fatal: if binding the listening port  *)
(* fails, the relay process has exited with no worker, broadcast or        *)
(* metrics thread started and no datagram received or enqueued, and it     *)
(* takes no step after the exit.                                           *)
(***************************************************************************)
NothingStarted ==
    /\ main.workers = 0
    /\ ~main.broadcast_presence
    /\ ~main.display_metrics
    /\ received = <<>>
    /\ connection_queue = <<>>
    /\ net = <<>>
    /\ broadcast_dropped = 0
    /\ \A w \in Workers : worker[w].pc = "idle"

C24_BindFailureFatal ==
    /\ [](main.bind = "failed" =>
             main.pc = "exited" /\ main.exit_code = 1 /\ NothingStarted)
    /\ [][main.pc # "exited"]_vars

\* bind raised and the process is gone
C24_Witness == main.bind = "failed" /\ main.pc = "exited"

(***************************************************************************)
(* C25. The command station is a pure sink: for every decodable envelope   *)
(* it increments exactly one of the control / data / unknown counters and  *)
(* total_messages_received by one, so total_messages_received = control +  *)
(* data + unknown in every reachable state, and it sends no datagram.      *)
(***************************************************************************)
Classified(m) ==
    m.control_messages_received + m.data_messages_received + m.unknown_messages_received

C25_PureSink ==
    /\ command_station.metrics.total_messages_received = Classified(command_station.metrics)
    /\ field_station.metrics.total_messages_received = Classified(field_station.metrics)
    /\ net = <<>> /\ vehicle.sock = <<>>

(***************************************************************************)
(* C26. Every work item reaches a terminal state: under fair scheduling of *)
(* the workers each envelope put on connection_queue is handled to its end *)
(* at some time, and a data envelope handled to its end is in exactly one  *)
(* of Deduplicated (rejected), Delivered (a send succeeded) or             *)
(* RetryExhausted / dropped.                                               *)
(***************************************************************************)
Deduplicated(n) == life[n].verdict = "duplicate"

Delivered(n) == Forwarded(n)

Dropped(n) == Exhausted(n) \/ life[n].route = "no_route"

TerminalStates(n) ==
    (IF Deduplicated(n) THEN 1 ELSE 0) + (IF Delivered(n) THEN 1 ELSE 0)
        + (IF Dropped(n) THEN 1 ELSE 0)

C26_TerminalState ==
    /\ [](\A n \in ItemsReceived : (IsData(n) /\ life[n].done) => TerminalStates(n) = 1)
    /\ \A n \in 1..MaxResent :
          (Len(received) >= n) ~> (Len(received) >= n /\ life[n].done)

(***************************************************************************)
(* C27. On the first successful send attempt for a work item,              *)
(* total_packets_forwarded is incremented by exactly one and retrying      *)
(* stops: the successful send is the last send for that item,              *)
(* total_packets_dropped is not incremented for it, and the ACK step       *)
(* follows.                                                                *)
(***************************************************************************)
\* worker w's forward_message, in this step, makes a send that succeeds
SendSucceeds(w) ==
    /\ worker[w].pc = "dispatch"
    /\ \E i \in DOMAIN net'[worker[w].item] :
          /\ i \notin DOMAIN net[worker[w].item]
          /\ net'[worker[w].item][i].kind = "forward"
          /\ net'[worker[w].item][i].ok

C27_FirstSuccessStops ==
    /\ [](\A n \in ItemsReceived : \A i \in CallsOf(n, "forward") :
             net[n][i].ok => \A j \in CallsOf(n, "forward") : j <= i)
    /\ [][\A w \in Workers : SendSucceeds(w) =>
             /\ metrics'.total_packets_forwarded = metrics.total_packets_forwarded + 1
             /\ metrics'.total_packets_dropped = metrics.total_packets_dropped
             /\ worker'[w].pc = "send_ack"
             /\ worker'[w].item = worker[w].item]_vars

\* a send succeeded after a failed attempt, and the ACK was sent
C27_Witness ==
    \E n \in ItemsReceived :
        /\ Cardinality(CallsOf(n, "forward")) = 2
        /\ ~net[n][1].ok
        /\ Forwarded(n)
        /\ Acked(n)

(***************************************************************************)
(* C28. Each forwarding attempt first consults the link simulator's drop   *)
(* decision and sends nothing when it says drop: with the simulator forced *)
(* to always drop, a data work item causes no datagram to be sent to the   *)
(* next hop.                                                               *)
(***************************************************************************)
C28_DropMeansNoSend ==
    link_simulator = "always_drop" =>
        \A n \in ItemsReceived : CallsOf(n, "forward") = {}

(***************************************************************************)
(* C29. Backoff between the relay's forwarding attempts is exponential:    *)
(* the wait after failed attempt number k (k = 0, 1, ...) is base * 2^k,   *)
(* and there is no wait after the last failed attempt.                     *)
(***************************************************************************)
C29_ExponentialBackoff ==
    \A n \in ItemsReceived : \A i \in CallsOf(n, "forward") :
        ~net[n][i].ok =>
            net[n][i].slept = IF i = MAX_RETRIES THEN 0 ELSE RETRY_SLEEP * 2^(i - 1)

(***************************************************************************)
(* C30. Lock discipline: no relay thread holds more than one lock, no lock *)
(* is acquired while another is held, every acquired lock is released      *)
(* before the thread blocks on a send, sleep or queue operation, and hence *)
(* no deadlock is reachable: whoever holds the lock can go on to release   *)
(* it, and some thread can always take a step.                             *)
(***************************************************************************)
\* thread t stands before a send, a sleep or a queue operation
Blocks(t) == \E e \in EdgesAt(t) : e.op \in {"get", "sendto", "sleep"}

\* thread t can take its next step now
CanStep(t) ==
    \E e \in EdgesAt(t) : e.op = "acquire" => threads.metrics_lock = 0

C31_RoutingTableMutualExclusion ==
    \A t, u \in 1..MaxLockWorkers :
        ~(threads.pc[t] = L("get_next_hop") /\ threads.pc[u] = L("in_149"))

(***************************************************************************)
(* C32. The dedup window is anchored at first sight: a call of             *)
(* is_duplicate that returns true leaves the record as it is, a call made  *)
(* 10 seconds or more after the record's time returns false and records    *)
(* the id anew, and so a call that follows a suppressed duplicate returns  *)
(* false once 10 seconds have passed since the first sight, however short  *)
(* the time since the duplicate (novel at 0, suppressed at 6, novel at     *)
(* 12).                                                                    *)
(***************************************************************************)
C32_WindowAnchoredAtFirstSight ==
    [][call' # call =>
         LET id == call'.id
             t == call'.at
         IN  /\ call'.returned =>
                    /\ id \in DOMAIN recent_messages
                    /\ recent_messages' = recent_messages
                    /\ t - recent_messages[id] < 10
             /\ (id \in DOMAIN recent_messages /\ t - recent_messages[id] >= 10) =>
                    /\ ~call'.returned
                    /\ recent_messages'[id] = t
             /\ (/\ call # NoCall
                 /\ call.id = id
                 /\ call.returned
                 /\ t >= call.before[id] + 10) => ~call'.returned]_vars

\* an id first seen at 0 was suppressed at least once and is novel again at 12
C32_Witness ==
    /\ call # NoCall
    /\ call.id = "vehicle_1-1"
    /\ call.at = 12
    /\ ~call.returned
    /\ DOMAIN call.before = {"vehicle_1-1"}
    /\ call.before["vehicle_1-1"] = 0
    /\ metrics["duplicate_messages"] >= 1
    /\ recent_messages["vehicle_1-1"] = 12

(***************************************************************************)
(* C33. The sender's retry recovers a failed forward: when a data item     *)
(* ended with its retries exhausted or without a route, a later envelope   *)
(* with the same id that is looked up within the dedup window of the       *)
(* first is judged novel and goes through forward_message again.           *)
(***************************************************************************)
\* item n ended without a forward that left the relay
FailedForward(n) ==
    /\ IsData(n)
    /\ life[n].done
    /\ life[n].verdict = "novel"
    /\ Exhausted(n) \/ life[n].route = "no_route"

C33_RetryRecoversFailedForward ==
    \A n \in ItemsReceived : \A k \in SameId(n) :
        (/\ n < k
         /\ FailedForward(n)
         /\ life[k].done
         /\ life[k].age \in 0..(DEDUP_WINDOW - 1))
            => life[k].verdict = "novel" /\ life[k].route # "none"

(***************************************************************************)
(* C34. Counter conservation: the step that takes a non-duplicate data     *)
(* item through forward_message adds one to exactly one of                 *)
(* total_packets_forwarded and total_packets_dropped; the two counters,    *)
(* without the drops of broadcast_presence, add up to the number of        *)
(* non-duplicate data items that went through forward_message; neither     *)
(* counter ever decreases.                                                 *)
(***************************************************************************)
\* the non-duplicate data items forward_message has returned for
Routed == {n \in ItemsReceived : IsData(n) /\ life[n].verdict = "novel"
                                           /\ life[n].route # "none"}

C35_AnnouncementFrame ==
    [][\A w \in Workers :
           ProcessesAnnouncement(w) =>
               \A d \in DOMAIN ROUTING_TABLE \ {received[worker[w].item].message.source} :
                   get_next_hop(ROUTING_TABLE', d) = get_next_hop(ROUTING_TABLE, d)]_vars

(***************************************************************************)
(* C36. ACKs reach only the originator: the ACK a relay sends for a data   *)
(* envelope that another relay forwarded to it is addressed to the host of *)
(* the vehicle that originated the envelope, and no ACK is addressed to    *)
(* the host of the forwarding relay.                                       *)
(***************************************************************************)
C36_AckToOriginator ==
    \A n \in ItemsReceived : \A i \in CallsOf(n, "ack") :
        received[n].addr = NeighborRelayAddr =>
            /\ net[n][i].to[1] # NeighborRelayAddr[1]
            /\ net[n][i].to = <<VehicleAddr[1], ACK_LISTEN_PORT>>

(***************************************************************************)
(* C37. Vehicle ACK correlation: when send_data returns True for a         *)
(* message, the datagram it took for the acknowledgement is an ACK the     *)
(* relay sent for a work item that carries that very message; an ACK sent  *)
(* for an earlier message of the vehicle is not accepted.                  *)
(***************************************************************************)
C37_AckCorrelation ==
    (vehicle.pc = "returned" /\ vehicle.returned) =>
        \E n \in ItemsReceived :
            /\ received[n].message = VehicleMessage(vehicle.call)
            /\ vehicle.accepted = AckMessage(received[n].message.source, n)

(***************************************************************************)
(* C38. send_data is bounded and accounted: one call sends at most         *)
(* MAX_RETRIES datagrams, all of them the call's envelope; it returns True *)
(* at the first reply of type "ack" and sends nothing after returning; it  *)
(* returns False only after MAX_RETRIES attempts; one call adds one to     *)
(* exactly one of successful_transmissions and failed_transmissions; an    *)
(* attempt lost to simulate_packet_loss sends nothing.                     *)
(***************************************************************************)
\* the datagrams the current call of send_data has sent
SentByCall == SubSeq(vehicle.sent, vehicle.entry.sent + 1, Len(vehicle.sent))

\* what the current call has added to a counter
CountedByCall(key) == vehicle.metrics[key] - vehicle.entry[key]

NoPutToCome ==
    /\ parallel.message_queue = {}
    /\ parallel.connection_queue = <<>>
    /\ \A v \in Workers : parallel.worker[v].pc \in {"idle", "get"}

\* no other envelope the relay received carries the id of item n
ParallelUniqueId(n) ==
    \A k \in DOMAIN parallel.received \ {n} :
        parallel.received[k].message.id # parallel.received[n].message.id

C39_NoWorkerBlockedInRouteData ==
    \A w \in Workers :
        (parallel.worker[w].pc = "get" /\ ParallelUniqueId(parallel.worker[w].item))
            => ~NoPutToCome

(***************************************************************************)
(* C40. With only the static ROUTING_TABLE, every destination the table    *)
(* lists resolves to an endpoint: a data envelope addressed to one of them *)
(* is forwarded and not dropped for want of a route.                       *)
(***************************************************************************)
C40_StaticDestinationsResolve ==
    ROUTING_TABLE = StaticRoutingTable =>
        \A n \in ItemsReceived :
            (/\ IsData(n)
             /\ received[n].message.destination \in DOMAIN StaticRoutingTable
             /\ life[n].route # "none")
                => /\ get_next_hop(ROUTING_TABLE, received[n].message.destination) # None
                   /\ life[n].route = "hop"

====
